---- MODULE Spec2Model ----
(***************************************************************************)
(* Model of the elroi-vision analysis pipeline: the orchestrator           *)
(* analyze_neuromarketing (src/app.py), the /img_neuromarketing_report     *)
(* handler (src/main.py), the lazily initialised detector handle           *)
(* (load_model) and the services under src/services they call.             *)
(*                                                                         *)
(* Conventions.  A Python dict is a TLA+ record/function; d.get(k, v) is   *)
(* Get(d, k, v).  A Python str that the code searches (OCR text, keyword   *)
(* lists, object names) is a sequence of one-character strings, so that    *)
(* `kw in text` is a real substring test.  A float is a scaled integer:    *)
(* the scale is stated where the value is produced.  Explanatory texts the  *)
(* services format from several values (explicacao, *_meaning) are         *)
(* shortened to the value they are built from; str(e) stands for the       *)
(* message of the exception caught.                                        *)
(***************************************************************************)
EXTENDS Integers, Sequences, FiniteSets, TLC

(***************************************************************************)
(* Python primitives                                                       *)
(***************************************************************************)

\* dict.get(k, default)
Get(d, k, default) == IF k \in DOMAIN d THEN d[k] ELSE default

\* d[k] = v on a dict (also: binding a local name)
Bind(d, k, v) == (k :> v) @@ d

\* the elements of a list, as a set
Range(s) == {s[i] : i \in DOMAIN s}

\* list.count(x)
Count(s, x) == Cardinality({i \in DOMAIN s : s[i] = x})

\* round(num/den) to the nearest integer, num >= 0, den > 0
RoundDiv(num, den) == (2 * num + den) \div (2 * den)

\* sum of a list of integers
RECURSIVE SumSeq(_)
SumSeq(s) == IF s = <<>> THEN 0 ELSE Head(s) + SumSeq(Tail(s))

\* the letters str.lower() changes, among the characters the texts use
UpperToLower ==
  "A" :> "a" @@ "B" :> "b" @@ "C" :> "c" @@ "D" :> "d" @@ "E" :> "e"
  @@ "F" :> "f" @@ "G" :> "g" @@ "H" :> "h" @@ "I" :> "i" @@ "J" :> "j"
  @@ "K" :> "k" @@ "L" :> "l" @@ "M" :> "m" @@ "N" :> "n" @@ "O" :> "o"
  @@ "P" :> "p" @@ "Q" :> "q" @@ "R" :> "r" @@ "S" :> "s" @@ "T" :> "t"
  @@ "U" :> "u" @@ "V" :> "v" @@ "W" :> "w" @@ "X" :> "x" @@ "Y" :> "y"
  @@ "Z" :> "z" @@ "Á" :> "á" @@ "É" :> "é" @@ "Í" :> "í" @@ "Ó" :> "ó"
  @@ "Ú" :> "ú" @@ "Ç" :> "ç" @@ "Ã" :> "ã" @@ "Õ" :> "õ" @@ "Â" :> "â"
  @@ "Ê" :> "ê"

\* str.lower() on one character
LowerChar(c) == IF c \in DOMAIN UpperToLower THEN UpperToLower[c] ELSE c

\* str.lower()
Lower(s) == [i \in DOMAIN s |-> LowerChar(s[i])]

\* needle in hay (substring test on two strings)
Contains(hay, needle) ==
  \E i \in 0..(Len(hay) - Len(needle)) :
     \A j \in 1..Len(needle) : hay[i + j] = needle[j]

\* " ".join(parts)
RECURSIVE JoinSpace(_)
JoinSpace(parts) ==
  IF parts = <<>> THEN <<>>
  ELSE IF Len(parts) = 1 THEN Head(parts)
  ELSE Head(parts) \o <<" ">> \o JoinSpace(Tail(parts))

(***************************************************************************)
(* Iteration order of a set of str.  CPython randomises str hashes per     *)
(* process (PYTHONHASHSEED), so the order in which set(...) yields its     *)
(* elements is fixed inside one process and differs between processes.     *)
(* A process is given a seed; the seed fixes one order of the strings the  *)
(* code puts in such sets.                                                 *)
(***************************************************************************)
NumSeeds == 2

HashedStrings ==
  << "dark", "light", "neutral", "warm-energetic", "cheerful", "fresh",
     "calm", "trustworthy", "creative", "happy", "sad", "angry" >>

\* position of s in the iteration order of a set under the process's seed
SetPosition(s, seed) ==
  LET i == CHOOSE k \in DOMAIN HashedStrings : HashedStrings[k] = s
  IN  (i * seed) % 13

\* the first item of the list, whatever the counts
MaxOfSetByCount_first(items, seed) == items[1]

\* max(set(items), key=items.count): the first element, in the set's
\* iteration order, among those with the highest count
MaxOfSetByCount(items, seed) ==
  LET best == {x \in Range(items) :
                 \A y \in Range(items) : Count(items, y) <= Count(items, x)}
  IN  CHOOSE x \in best :
        \A y \in best : SetPosition(x, seed) <= SetPosition(y, seed)

(***************************************************************************)
(* Color analysis engine (src/services/colors.py)                          *)
(* A pixel is <<r, g, b>>.  `pixels` is the flattened image after          *)
(* image.resize((150, 150)).  Percentages and contrast ratios are in       *)
(* hundredths (round(x, 2) * 100).                                         *)
(***************************************************************************)

\* (pixels // 32) * 32 on one pixel
Quantize(px) == << (px[1] \div 32) * 32, (px[2] \div 32) * 32, (px[3] \div 32) * 32 >>

\* the keys of Counter(map(tuple, quantized)), in insertion order
RECURSIVE CounterKeys(_, _)
CounterKeys(colors, seen) ==
  IF colors = <<>> THEN <<>>
  ELSE IF Head(colors) \in seen THEN CounterKeys(Tail(colors), seen)
  ELSE <<Head(colors)>> \o CounterKeys(Tail(colors), seen \cup {Head(colors)})

\* Counter.most_common(n): the n highest counts, ties in insertion order
RECURSIVE most_common(_, _, _)
most_common(keys, colors, n) ==
  IF n = 0 \/ keys = <<>> THEN <<>>
  ELSE LET i == CHOOSE k \in DOMAIN keys :
                  /\ \A m \in DOMAIN keys : Count(colors, keys[m]) <= Count(colors, keys[k])
                  /\ \A m \in 1..(k - 1) : Count(colors, keys[m]) < Count(colors, keys[k])
           rest == [m \in 1..(Len(keys) - 1) |-> IF m < i THEN keys[m] ELSE keys[m + 1]]
       IN  <<keys[i]>> \o most_common(rest, colors, n - 1)

\* colorsys.rgb_to_hsv as exact fractions: hue = hn/hd sixths of a turn
\* (h_deg = 60*hn/hd), saturation = sn/sd, value = vn/255
rgb_to_hsv(rgb) ==
  LET r == rgb[1]  g == rgb[2]  b == rgb[3]
      maxc == IF r >= g /\ r >= b THEN r ELSE IF g >= b THEN g ELSE b
      minc == IF r <= g /\ r <= b THEN r ELSE IF g <= b THEN g ELSE b
      d == maxc - minc
  IN  IF d = 0 THEN [hn |-> 0, hd |-> 1, sn |-> 0, sd |-> 1, vn |-> maxc]
      ELSE [hn |-> IF r = maxc THEN (g - b) % (6 * d)
                   ELSE IF g = maxc THEN 2 * d + (b - r)
                   ELSE 4 * d + (r - g),
            hd |-> d, sn |-> d, sd |-> maxc, vn |-> maxc]

\* _classify_color_emotion with the saturation test placed before the light test
classify_color_emotion_neutral_first(hsv) ==
  LET HueBelow(deg) == 60 * hsv.hn < deg * hsv.hd
  IN  IF 10 * hsv.vn < 3 * 255 THEN "dark"
      ELSE IF 10 * hsv.sn < 3 * hsv.sd THEN "neutral"
      ELSE IF 10 * hsv.vn > 8 * 255 THEN "light"
      ELSE IF HueBelow(30) \/ ~HueBelow(330) THEN "warm-energetic"
      ELSE IF HueBelow(90) THEN "cheerful"
      ELSE IF HueBelow(150) THEN "fresh"
      ELSE IF HueBelow(210) THEN "calm"
      ELSE IF HueBelow(270) THEN "trustworthy"
      ELSE IF HueBelow(330) THEN "creative"
      ELSE "neutral"

\* _classify_color_emotion(h, s, v)
classify_color_emotion(hsv) ==
  LET HueBelow(deg) == 60 * hsv.hn < deg * hsv.hd
  IN  IF 10 * hsv.vn < 3 * 255 THEN "dark"
      ELSE IF 10 * hsv.vn > 8 * 255 /\ 10 * hsv.sn < 3 * hsv.sd THEN "light"
      ELSE IF 10 * hsv.sn < 3 * hsv.sd THEN "neutral"
      ELSE IF HueBelow(30) \/ ~HueBelow(330) THEN "warm-energetic"
      ELSE IF HueBelow(90) THEN "cheerful"
      ELSE IF HueBelow(150) THEN "fresh"
      ELSE IF HueBelow(210) THEN "calm"
      ELSE IF HueBelow(270) THEN "trustworthy"
      ELSE IF HueBelow(330) THEN "creative"
      ELSE "neutral"

\* f"{n:02x}" for a channel value
HexByte(n) ==
  LET digits == <<"0", "1", "2", "3", "4", "5", "6", "7", "8", "9",
                  "a", "b", "c", "d", "e", "f">>
  IN  digits[(n \div 16) + 1] \o digits[(n % 16) + 1]

\* extract_dominant_colors(image, n_colors); raised = the body raised and the
\* except branch returned [].  hsv.h is in tenths of a degree, hsv.s and
\* hsv.v in tenths of a percent
extract_dominant_colors(pixels, n_colors, raised) ==
  IF raised THEN <<>>
  ELSE LET quantized == [i \in DOMAIN pixels |-> Quantize(pixels[i])]
           common == most_common(CounterKeys(quantized, {}), quantized, n_colors)
       IN  [i \in DOMAIN common |->
              LET hsv == rgb_to_hsv(common[i])
              IN  [rgb |-> common[i],
                   hex |-> "#" \o HexByte(common[i][1]) \o HexByte(common[i][2])
                               \o HexByte(common[i][3]),
                   percentage |->
                     RoundDiv(Count(quantized, common[i]) * 10000, Len(pixels)),
                   hsv |-> [h |-> RoundDiv(600 * hsv.hn, hsv.hd),
                            s |-> RoundDiv(1000 * hsv.sn, hsv.sd),
                            v |-> RoundDiv(1000 * hsv.vn, 255)],
                   emotion_tag |-> classify_color_emotion(hsv)]]

\* adjust(c/255) * 10^5 for the channel values used: 0 and 10 take the linear
\* branch (c <= 0.03928), 11 and above the power branch
AdjustedLevel ==
  (0 :> 0) @@ (10 :> 304) @@ (11 :> 335) @@ (32 :> 1444) @@ (64 :> 5127)
  @@ (96 :> 11697) @@ (128 :> 21586) @@ (160 :> 35153) @@ (192 :> 52712)
  @@ (224 :> 74540) @@ (255 :> 100000)

\* get_luminance(rgb) * 10^6
get_luminance(rgb) ==
  RoundDiv(  2126 * AdjustedLevel[rgb[1]]
           + 7152 * AdjustedLevel[rgb[2]]
           +  722 * AdjustedLevel[rgb[3]], 1000)

\* calculate_contrast without lighter = max(l1, l2) and darker = min(l1, l2)
calculate_contrast_unordered(color1, color2) ==
  LET l1 == get_luminance(color1)
      l2 == get_luminance(color2)
  IN  RoundDiv((l1 + 50000) * 100, l2 + 50000)

\* calculate_contrast(color1, color2), in hundredths
calculate_contrast(color1, color2) ==
  LET l1 == get_luminance(color1)
      l2 == get_luminance(color2)
      lighter == IF l1 >= l2 THEN l1 ELSE l2
      darker == IF l1 >= l2 THEN l2 ELSE l1
  IN  RoundDiv((lighter + 50000) * 100, darker + 50000)

\* analyze_image_colors(image, n_colors=5)
analyze_image_colors(pixels, raised, seed) ==
  LET dominant_colors == extract_dominant_colors(pixels, 5, raised)
      contrast_scores ==
        [i \in 1..(Len(dominant_colors) - 1) |->
           calculate_contrast(dominant_colors[i].rgb, dominant_colors[i + 1].rgb)]
      over10 == SelectSeq(dominant_colors, LAMBDA c : c.percentage > 1000)
      emotion_tags == [i \in DOMAIN over10 |-> over10[i].emotion_tag]
  IN  [dominant_colors |-> dominant_colors,
       average_contrast |-> IF contrast_scores = <<>> THEN 0
                            ELSE RoundDiv(SumSeq(contrast_scores), Len(contrast_scores)),
       emotion_palette |-> IF emotion_tags = <<>> THEN "neutral"
                           ELSE MaxOfSetByCount(emotion_tags, seed),
       color_count |-> Len(dominant_colors)]

(***************************************************************************)
(* External collaborators as the services wrap them.  What a pretrained    *)
(* model would compute on the image is carried by the image record:        *)
(*   text   what easyocr.readtext finds: [text, confidence (hundredths),   *)
(*          bbox] per segment                                              *)
(*   faces  what DeepFace.analyze finds: [dominant_emotion,                *)
(*          dominant_confidence (thousandths)] per face                    *)
(*   gaze   what FaceMesh finds: <<>> or <<[direction, region]>>           *)
(*   body   what Pose finds: <<>> or <<body_angle in degrees>>             *)
(*   objs   what YOLO finds: [name, confidence (hundredths)] per box       *)
(* `raised` says that the wrapped library call raised on this call.        *)
(***************************************************************************)

\* OCRService.extract_text(image, method="easyocr"), with extract_text_easyocr
\* inlined; reader_ok is EASYOCR_AVAILABLE and self.easyocr_reader is not None
extract_text(image, reader_ok, raised) ==
  LET segments == IF ~reader_ok THEN <<>>
                  ELSE IF raised THEN <<>>
                  ELSE image.text
  IN  [full_text |-> JoinSpace([i \in DOMAIN segments |-> segments[i].text]),
       segments |-> segments,
       total_segments |-> Len(segments),
       method_used |-> "easyocr"]

\* EmotionService.detect_emotions(image); exc is what DeepFace.analyze raised:
\* "none", "noface" (a message holding "Face could not be detected") or "other"
detect_emotions(image, deepface_available, exc, seed) ==
  IF ~deepface_available
  THEN [faces_detected |-> 0, emotions |-> <<>>, method |-> "none",
        message |-> "DeepFace não disponível. Instale: pip install deepface"]
  ELSE IF exc = "noface"
  THEN [faces_detected |-> 0, emotions |-> <<>>, method |-> "deepface",
        message |-> "Nenhuma face detectada na imagem"]
  ELSE IF exc = "other"
  THEN [faces_detected |-> 0, emotions |-> <<>>, method |-> "error",
        error |-> "error_msg"]
  ELSE LET emotions_list ==
             [i \in DOMAIN image.faces |->
                [face_id |-> i,
                 dominant_emotion |-> image.faces[i].dominant_emotion,
                 dominant_confidence |-> image.faces[i].dominant_confidence]]
           dominant_emotions ==
             [i \in DOMAIN emotions_list |-> emotions_list[i].dominant_emotion]
       IN  [faces_detected |-> Len(emotions_list),
            emotions |-> emotions_list,
            scene_emotion |-> IF emotions_list # <<>>
                              THEN MaxOfSetByCount(dominant_emotions, seed)
                              ELSE "neutral",
            average_confidence |->
              IF emotions_list # <<>>
              THEN RoundDiv(SumSeq([i \in DOMAIN emotions_list |->
                                      emotions_list[i].dominant_confidence]),
                            Len(emotions_list))
              ELSE 0,
            method |-> "deepface"]

\* EmotionService.analyze_emotional_impact(image, emotions_result)
analyze_emotional_impact(emotions_result) ==
  IF Get(emotions_result, "faces_detected", 0) = 0
  THEN [emotional_impact |-> "neutral", valence |-> "neutral", arousal |-> "low",
        recommendation |->
          "Adicione faces humanas para análise emocional mais precisa"]
  ELSE LET scene_emotion == Get(emotions_result, "scene_emotion", "neutral")
           valence == IF scene_emotion \in {"happy", "surprise"} THEN "positive"
                      ELSE IF scene_emotion \in {"sad", "angry", "fear", "disgust"}
                           THEN "negative"
                      ELSE "neutral"
           arousal == IF scene_emotion \in {"angry", "fear", "surprise", "happy"}
                      THEN "high" ELSE "low"
       IN  [emotional_impact |-> valence \o "-" \o arousal,
            valence |-> valence, arousal |-> arousal,
            recommendations |->
              IF valence = "positive" /\ arousal = "high"
                THEN <<"Imagem transmite energia positiva - ideal para campanhas motivacionais">>
              ELSE IF valence = "positive" /\ arousal = "low"
                THEN <<"Imagem transmite calma e confiança - ideal para produtos premium">>
              ELSE IF valence = "negative"
                THEN <<"Considere ajustar para transmitir emoções mais positivas">>
              ELSE <<>>]

\* CaptionService.generate_caption(image); blip_ok is BLIP_AVAILABLE and the
\* processor and the model were loaded
generate_caption(image, blip_ok, raised) ==
  IF ~blip_ok
  THEN [caption |-> "Serviço de caption não disponível. Instale transformers e blip.", method |-> "none",
        confidence |-> 0]
  ELSE IF raised
  THEN [caption |-> "Erro ao gerar descrição: str(e)", method |-> "error", confidence |-> 0]
  ELSE [caption |-> image.caption, method |-> "blip", confidence |-> 85,
        length |-> image.caption_words]

\* GazeService.estimate_gaze_direction(image); mesh_ok is MEDIAPIPE_AVAILABLE
\* and self.face_mesh is not None
estimate_gaze_direction(image, mesh_ok, raised) ==
  LET none(method) ==
        [faces_detected |-> 0, gaze_directions |-> <<>>,
         primary_gaze_direction |-> "indefinido", gaze_target_region |-> "centro",
         method |-> method]
  IN  IF ~mesh_ok THEN none("none") @@ [explicacao |-> "MediaPipe não disponível. Instale: pip install mediapipe"]
      ELSE IF raised THEN none("error") @@ [error |-> "str(e)"]
      ELSE IF image.gaze = <<>>
           THEN none("mediapipe") @@ [explicacao |-> "Nenhuma face detectada para análise de olhar"]
      ELSE [faces_detected |-> Len(image.gaze),
            gaze_directions |-> image.gaze,
            primary_gaze_direction |-> image.gaze[1].direction,
            gaze_target_region |-> image.gaze[1].gaze_target_region,
            method |-> "mediapipe",
            explicacao |-> "Olhar direcionado"]

\* PoseService.analyze_body_language(image); pose_ok is MEDIAPIPE_AVAILABLE and
\* self.pose is not None
analyze_body_language(image, pose_ok, raised) ==
  LET none(method) ==
        [people_detected |-> 0, postures |-> <<>>, dominant_posture |-> "indefinido",
         movement_sensation |-> "nenhum", body_language_analysis |-> <<>>,
         method |-> method]
      Abs(x) == IF x < 0 THEN -x ELSE x
  IN  IF ~pose_ok THEN none("none") @@ [explicacao |-> "MediaPipe não disponível. Instale: pip install mediapipe"]
      ELSE IF raised THEN none("error") @@ [error |-> "str(e)"]
      ELSE IF image.body = <<>>
           THEN none("mediapipe") @@ [explicacao |-> "Nenhuma pessoa detectada para análise de pose"]
      ELSE LET body_angle == image.body[1]
               posture == IF Abs(body_angle) < 5 THEN "ereta"
                          ELSE IF body_angle > 10 THEN "inclinada_para_frente"
                          ELSE IF body_angle < -10 THEN "inclinada_para_tras"
                          ELSE "leve_inclinacao"
               movement == IF Abs(body_angle) > 15 THEN "alto"
                           ELSE IF Abs(body_angle) > 5 THEN "moderado"
                           ELSE "baixo"
           IN  [people_detected |-> 1,
                postures |-> <<[posture |-> posture, body_angle |-> body_angle]>>,
                dominant_posture |-> posture,
                movement_sensation |-> movement,
                movement_explanation |-> "movimento " \o movement,
                body_language_analysis |-> <<[posture_type |-> posture]>>,
                method |-> "mediapipe",
                explicacao |-> "Postura " \o posture]

(***************************************************************************)
(* Numeric engines.  What OpenCV measures on the pixels is carried by the  *)
(* image record; the classification the service builds on the measure is   *)
(* modelled.  `raised` says that the body of the service's try block       *)
(* raised (for instance cv2 rejecting an empty quadrant of a 1x1 image).   *)
(*   sharpness  Laplacian variance of the five regions, in thousandths     *)
(*   symmetry   [h, v] correlations in thousandths                         *)
(*   light      [avg, std] luminance in tenths, [r, b] channel means in    *)
(*              hundredths                                                 *)
(*   texture    [lbp (the local-binary-pattern code of each pixel),       *)
(*              gradient_variance (hundredths)]                            *)
(*   scene      [green, gray, blue] percentages in tenths                  *)
(*   saliency, saliency_fallback  the spectral-residual map and the        *)
(*              Laplacian map: [grid, peaks], the grid being the uint8     *)
(*              map as a list of rows (on a coarse grid), the peaks its    *)
(*              local maxima [x, y, score (thousandths)]                   *)
(***************************************************************************)

\* DepthService.analyze_depth_of_field(image)
analyze_depth_of_field(image, raised) ==
  IF raised
  THEN [overall_focus_level |-> "indefinido", average_variance |-> 0,
        depth_of_field_type |-> "indefinido", error |-> "str(e)"]
  ELSE LET names == <<"superior_esquerdo", "superior_direito", "inferior_esquerdo",
                      "inferior_direito", "centro">>
           \* laplacian.var() as computed, and round(float(variance), 2) in
           \* hundredths as stored under "variance"
           variance == image.sharpness
           var == [i \in 1..5 |-> RoundDiv(variance[i], 10)]
           level(x) == IF x > 100000 THEN "alto" ELSE IF x > 50000 THEN "medio" ELSE "baixo"
           most == CHOOSE i \in 1..5 : /\ \A j \in 1..5 : var[j] <= var[i]
                                       /\ \A j \in 1..(i - 1) : var[j] < var[i]
           least == CHOOSE i \in 1..5 : /\ \A j \in 1..5 : var[j] >= var[i]
                                        /\ \A j \in 1..(i - 1) : var[j] > var[i]
           variance_range == var[most] - var[least]
           depth_type == IF variance_range > 20000 THEN "rasa"
                         ELSE IF variance_range > 10000 THEN "moderada"
                         ELSE "profunda"
       IN  [overall_focus_level |-> IF SumSeq(var) > 5 * 10000 THEN "alto"
                                    ELSE IF SumSeq(var) > 5 * 5000 THEN "medio"
                                    ELSE "baixo",
            average_variance |-> RoundDiv(SumSeq(var), 5),
            depth_of_field_type |-> depth_type,
            depth_explanation |-> "foco " \o depth_type,
            most_focused_region |-> names[most],
            least_focused_region |-> names[least],
            quadrant_analysis |->
              [i \in 1..5 |-> [name |-> names[i], variance |-> var[i],
                               focus_level |-> level(variance[i])]],
            explicacao |-> "Profundidade de campo " \o depth_type]

\* analyze_symmetry with the dominant type decided by >= instead of >
analyze_symmetry_inclusive(image, raised) ==
  IF raised
  THEN [symmetry_level |-> "indefinido", symmetry_score |-> 0, error |-> "str(e)"]
  ELSE LET horizontal_corr == image.symmetry.h
           vertical_corr == image.symmetry.v
           twice_avg == horizontal_corr + vertical_corr
           symmetry_level == IF twice_avg > 2 * 850 THEN "muito_alto"
                             ELSE IF twice_avg > 2 * 700 THEN "alto"
                             ELSE IF twice_avg > 2 * 500 THEN "moderado"
                             ELSE "baixo"
       IN  [symmetry_level |-> symmetry_level,
            symmetry_score |-> RoundDiv(twice_avg, 2),
            horizontal_symmetry |-> horizontal_corr,
            vertical_symmetry |-> vertical_corr,
            dominant_symmetry_type |->
              IF horizontal_corr >= vertical_corr + 100 THEN "horizontal"
              ELSE IF vertical_corr >= horizontal_corr + 100 THEN "vertical"
              ELSE "ambas",
            symmetry_meaning |-> "simetria " \o symmetry_level,
            explicacao |-> "Simetria " \o symmetry_level]

\* SymmetryService.analyze_symmetry(image)
analyze_symmetry(image, raised) ==
  IF raised
  THEN [symmetry_level |-> "indefinido", symmetry_score |-> 0, error |-> "str(e)"]
  ELSE LET horizontal_corr == image.symmetry.h
           vertical_corr == image.symmetry.v
           twice_avg == horizontal_corr + vertical_corr
           symmetry_level == IF twice_avg > 2 * 850 THEN "muito_alto"
                             ELSE IF twice_avg > 2 * 700 THEN "alto"
                             ELSE IF twice_avg > 2 * 500 THEN "moderado"
                             ELSE "baixo"
       IN  [symmetry_level |-> symmetry_level,
            symmetry_score |-> RoundDiv(twice_avg, 2),
            horizontal_symmetry |-> horizontal_corr,
            vertical_symmetry |-> vertical_corr,
            dominant_symmetry_type |->
              IF horizontal_corr > vertical_corr + 100 THEN "horizontal"
              ELSE IF vertical_corr > horizontal_corr + 100 THEN "vertical"
              ELSE "ambas",
            symmetry_meaning |-> "simetria " \o symmetry_level,
            explicacao |-> "Simetria " \o symmetry_level]

\* LightingService.analyze_lighting(image)
analyze_lighting(image, raised) ==
  IF raised
  THEN [lighting_level |-> "indefinido", color_temperature |-> "indefinido",
        error |-> "str(e)"]
  ELSE LET avg_luminance == image.light.avg
           std_luminance == image.light.std
           r_mean == image.light.r
           b_mean == image.light.b
           lighting_level == IF avg_luminance > 2000 THEN "muito_alto"
                             ELSE IF avg_luminance > 1500 THEN "alto"
                             ELSE IF avg_luminance > 1000 THEN "moderado"
                             ELSE IF avg_luminance > 500 THEN "baixo"
                             ELSE "muito_baixo"
           contrast_level == IF std_luminance > 400 THEN "alto"
                             ELSE IF std_luminance > 250 THEN "moderado"
                             ELSE "baixo"
           color_temp == IF r_mean > 0 /\ b_mean > 0
                         THEN IF 10 * r_mean > 13 * b_mean THEN "quente"
                              ELSE IF 10 * r_mean > 11 * b_mean THEN "neutra_quente"
                              ELSE IF 10 * r_mean > 9 * b_mean THEN "neutra"
                              ELSE "fria"
                         ELSE "indefinido"
       IN  [lighting_level |-> lighting_level,
            average_luminance |-> avg_luminance,
            luminance_std |-> std_luminance,
            lighting_meaning |-> "iluminacao " \o lighting_level,
            contrast_level |-> contrast_level,
            contrast_meaning |-> "variacao " \o contrast_level,
            color_temperature |-> color_temp,
            temperature_kelvin_approx |->
              CASE color_temp = "quente" -> 3000
                [] color_temp = "neutra_quente" -> 4000
                [] color_temp = "neutra" -> 5000
                [] color_temp = "fria" -> 6500
                [] OTHER -> 0,
            temperature_meaning |-> "temperatura " \o color_temp,
            explicacao |-> "Iluminacao " \o lighting_level]

radius == 3

lbp_n_points == 8 * radius

\* the codes of feature.local_binary_pattern(gray, n_points, radius,
\* method='uniform'): 0 .. n_points + 1
LbpCodes == 0..(lbp_n_points + 1)

\* np.log(k) for k = 1..32, in millionths
NaturalLogMicro ==
  <<
     0, 693147, 1098612, 1386294, 1609438, 1791759, 1945910, 2079442,
     2197225, 2302585, 2397895, 2484907, 2564949, 2639057, 2708050, 2772589,
     2833213, 2890372, 2944439, 2995732, 3044522, 3091042, 3135494, 3178054,
     3218876, 3258097, 3295837, 3332205, 3367296, 3401197, 3433987, 3465736
  >>

\* hist, _ = np.histogram(lbp.ravel(), bins=n_points + 2, range=(0, n_points + 2)):
\* the number of pixels of each code
np_histogram(lbp) == [c \in LbpCodes |-> Count(lbp, c)]

\* hist /= hist.sum(); entropy = -np.sum(hist * np.log(hist)), in millionths:
\* with hist[c] = k[c] / n it is log(n) - sum(k[c] * log(k[c])) / n. The terms
\* 1e-7 of the code move it by less than a hundred-thousandth.
texture_entropy(hist, n) ==
  LET counts == [i \in 1..(lbp_n_points + 2) |-> hist[i - 1]]
      weighted == [i \in DOMAIN counts |->
                     IF counts[i] = 0 THEN 0 ELSE counts[i] * NaturalLogMicro[counts[i]]]
  IN  NaturalLogMicro[n] - RoundDiv(SumSeq(weighted), n)

\* the mean of the squares, the square of the mean not being subtracted
np_var_second_moment(lbp) ==
  LET n == Len(lbp)
      squares == [i \in DOMAIN lbp |-> lbp[i] * lbp[i]]
  IN  [num |-> n * SumSeq(squares), den |-> n * n]

\* np.var(lbp) as the fraction num / den
np_var(lbp) ==
  LET n == Len(lbp)
      squares == [i \in DOMAIN lbp |-> lbp[i] * lbp[i]]
  IN  [num |-> n * SumSeq(squares) - SumSeq(lbp) * SumSeq(lbp), den |-> n * n]

\* TextureService.analyze_texture(image); texture_entropy is <<x>> for a number
\* and <<>> for None. image.texture.lbp holds the codes of the pixels, and
\* image.texture.gradient_variance the variance of the Sobel magnitude in
\* hundredths. The thresholds are compared with the unrounded values.
analyze_texture(image, skimage_available, raised) ==
  IF raised
  THEN [texture_type |-> "indefinido", tactile_sensation |-> "indefinido",
        error |-> "str(e)"]
  ELSE LET lbp == image.texture.lbp
           entropy == texture_entropy(np_histogram(lbp), Len(lbp))
           variance == IF skimage_available THEN np_var(lbp)
                       ELSE [num |-> image.texture.gradient_variance, den |-> 100]
           texture_type ==
             IF skimage_available
             THEN IF entropy > 4000000 THEN "complexa"
                  ELSE IF entropy > 3000000 THEN "moderada" ELSE "simples"
             ELSE IF variance.num > 500 * variance.den THEN "complexa"
                  ELSE IF variance.num > 200 * variance.den THEN "moderada" ELSE "simples"
           tactile_sensation ==
             IF variance.num > 500 * variance.den THEN "aspera"
             ELSE IF variance.num > 200 * variance.den THEN "texturizada"
             ELSE IF skimage_available /\ variance.num <= 50 * variance.den THEN "muito_lisa"
             ELSE "lisa"
       IN  [texture_type |-> texture_type,
            texture_entropy |-> IF skimage_available THEN <<RoundDiv(entropy, 1000)>> ELSE <<>>,
            texture_variance |-> RoundDiv(100 * variance.num, variance.den),
            texture_meaning |-> "textura " \o texture_type,
            tactile_sensation |-> tactile_sensation,
            tactile_meaning |-> "superficie " \o tactile_sensation,
            method |-> IF skimage_available THEN "lbp" ELSE "gradient",
            explicacao |-> "Textura " \o texture_type]

\* SceneService.classify_scene(image): every path of classify_scene ends in
\* _simple_scene_classification(image), whose try block may raise
classify_scene(image, raised) ==
  IF raised
  THEN [scene_type |-> "indefinido", error |-> "str(e)"]
  ELSE LET scene_type == IF image.scene.green > 200 THEN "natural"
                         ELSE IF image.scene.gray > 300 THEN "urbano_tecnologico"
                         ELSE IF image.scene.blue > 150 THEN "natural_aquatico"
                         ELSE "misto"
       IN  [scene_type |-> scene_type,
            natural_elements_percentage |-> image.scene.green,
            urban_elements_percentage |-> image.scene.gray,
            scene_meaning |-> "ambiente " \o scene_type,
            method |-> "color_analysis",
            explicacao |-> "Ambiente classificado como " \o scene_type]

(***************************************************************************)
(* Saliency / attention engine (src/services/saliency.py)                  *)
(***************************************************************************)

\* SaliencyService.calculate_saliency_map(image): <<map>>, or <<>> for None.
\* has_saliency is hasattr(cv2, "saliency"); primary_raised and fallback_raised
\* say that the spectral-residual call and _compute_simple_saliency raised
calculate_saliency_map(image, has_saliency, primary_raised, fallback_raised) ==
  IF has_saliency /\ ~primary_raised THEN <<image.saliency>>
  ELSE IF ~fallback_raised THEN <<image.saliency_fallback>>
  ELSE <<>>

\* _empty_attention_result with the alignment reported as "center"
empty_attention_result_center ==
  [attention_score |-> 0,
   focus_center |-> [x |-> 0, y |-> 0, normalized_x |-> 0, normalized_y |-> 0],
   rule_of_thirds_alignment |-> "center",
   primary_focus_zone |-> "unknown"]

\* SaliencyService._empty_attention_result()
empty_attention_result ==
  [attention_score |-> 0,
   focus_center |-> [x |-> 0, y |-> 0, normalized_x |-> 0, normalized_y |-> 0],
   rule_of_thirds_alignment |-> "unknown",
   primary_focus_zone |-> "unknown"]

\* SaliencyService.find_attention_points(image, n_points), given the map
\* calculate_saliency_map returned; peaks are the local maxima in the order
\* argsort leaves them
find_attention_points(saliency_map, n_points, raised) ==
  IF saliency_map = <<>> THEN <<>>
  ELSE IF raised THEN <<>>
  ELSE SubSeq(saliency_map[1].peaks, 1,
              IF Len(saliency_map[1].peaks) < n_points
              THEN Len(saliency_map[1].peaks) ELSE n_points)

\* np.sum(saliency_map) for axis "all", np.sum(x_coords * saliency_map) for
\* axis "x" and np.sum(y_coords * saliency_map) for axis "y", over a map given
\* as a list of rows; coordinates are counted from 0
GridSum(grid, axis) ==
  SumSeq([y \in DOMAIN grid |->
            SumSeq([x \in DOMAIN grid[y] |->
                      (IF axis = "x" THEN x - 1 ELSE IF axis = "y" THEN y - 1 ELSE 1)
                      * grid[y][x]])])

Abs(x) == IF x < 0 THEN -x ELSE x

\* min([1/3, 2/3], key=lambda z: abs(n - z)) for n = num/den: 1 stands for
\* 1/3 and 2 for 2/3; the first of two equally near zones wins
NearestThird(num, den) ==
  IF Abs(3 * num - den) <= Abs(3 * num - 2 * den) THEN 1 ELSE 2

\* abs(n - zone) < 0.1 for n = num/den
NearThird(num, den) == 10 * Abs(3 * num - NearestThird(num, den) * den) < 3 * den

\* analyze_attention_distribution where the centroid must be near a third on
\* both axes
analyze_attention_distribution_both_axes(saliency_map, raised) ==
  IF saliency_map = <<>> THEN empty_attention_result
  ELSE IF raised THEN empty_attention_result
  ELSE LET grid == saliency_map[1].grid
           height == Len(grid)
           width == Len(grid[1])
           total_saliency == GridSum(grid, "all")
           sum_x == GridSum(grid, "x")
           sum_y == GridSum(grid, "y")
           alignment == IF NearThird(sum_x, total_saliency * width)
                           /\ NearThird(sum_y, total_saliency * height)
                        THEN "aligned" ELSE "center"
       IN  IF total_saliency = 0 THEN empty_attention_result
           ELSE [attention_score |-> RoundDiv(1000 * total_saliency, 255 * height * width),
                 focus_center |->
                   [x |-> RoundDiv(10 * sum_x, total_saliency),
                    y |-> RoundDiv(10 * sum_y, total_saliency),
                    normalized_x |-> RoundDiv(1000 * sum_x, total_saliency * width),
                    normalized_y |-> RoundDiv(1000 * sum_y, total_saliency * height)],
                 rule_of_thirds_alignment |-> alignment,
                 primary_focus_zone |->
                   alignment
                   \o "-" \o (IF NearestThird(sum_x, total_saliency * width) = 1
                              THEN "0.3" ELSE "0.7")
                   \o "-" \o (IF NearestThird(sum_y, total_saliency * height) = 1
                              THEN "0.3" ELSE "0.7")]

\* SaliencyService.analyze_attention_distribution(image), given the map
\* calculate_saliency_map returned.  center_x = sum_x / total_saliency and
\* normalized_x = center_x / width are kept as exact fractions; attention_score
\* and the normalized coordinates are returned in thousandths, x and y in
\* tenths of a cell
analyze_attention_distribution(saliency_map, raised) ==
  IF saliency_map = <<>> THEN empty_attention_result
  ELSE IF raised THEN empty_attention_result
  ELSE LET grid == saliency_map[1].grid
           height == Len(grid)
           width == Len(grid[1])
           total_saliency == GridSum(grid, "all")
           sum_x == GridSum(grid, "x")
           sum_y == GridSum(grid, "y")
           alignment == IF NearThird(sum_x, total_saliency * width)
                           \/ NearThird(sum_y, total_saliency * height)
                        THEN "aligned" ELSE "center"
       IN  IF total_saliency = 0 THEN empty_attention_result
           ELSE [attention_score |-> RoundDiv(1000 * total_saliency, 255 * height * width),
                 focus_center |->
                   [x |-> RoundDiv(10 * sum_x, total_saliency),
                    y |-> RoundDiv(10 * sum_y, total_saliency),
                    normalized_x |-> RoundDiv(1000 * sum_x, total_saliency * width),
                    normalized_y |-> RoundDiv(1000 * sum_y, total_saliency * height)],
                 rule_of_thirds_alignment |-> alignment,
                 primary_focus_zone |->
                   alignment
                   \o "-" \o (IF NearestThird(sum_x, total_saliency * width) = 1
                              THEN "0.3" ELSE "0.7")
                   \o "-" \o (IF NearestThird(sum_y, total_saliency * height) = 1
                              THEN "0.3" ELSE "0.7")]

(***************************************************************************)
(* CTA engine (src/services/cta.py)                                        *)
(***************************************************************************)
CTA_KEYWORDS ==
  << <<"c","o","m","p","r","e">>, <<"b","u","y">>, <<"c","o","m","p","r","a","r">>,
     <<"a","d","q","u","i","r","a">>, <<"p","e","ç","a">>, <<"o","r","d","e","r">>,
     <<"s","a","i","b","a"," ","m","a","i","s">>,
     <<"l","e","a","r","n"," ","m","o","r","e">>, <<"d","e","s","c","u","b","r","a">>,
     <<"d","i","s","c","o","v","e","r">>,
     <<"c","a","d","a","s","t","r","e","-","s","e">>, <<"s","i","g","n"," ","u","p">>,
     <<"r","e","g","i","s","t","r","e","-","s","e">>,
     <<"r","e","g","i","s","t","e","r">>, <<"b","a","i","x","e">>,
     <<"d","o","w","n","l","o","a","d">>, <<"b","a","i","x","a","r">>,
     <<"c","l","i","q","u","e">>, <<"c","l","i","c","k">>, <<"t","o","q","u","e">>,
     <<"t","a","p">>, <<"a","g","o","r","a">>, <<"n","o","w">>, <<"j","á">>,
     <<"a","l","r","e","a","d","y">>, <<"g","r","á","t","i","s">>, <<"f","r","e","e">>,
     <<"g","r","a","t","u","i","t","o">>, <<"o","f","e","r","t","a">>,
     <<"o","f","f","e","r">>, <<"p","r","o","m","o","ç","ã","o">>,
     <<"p","r","o","m","o","t","i","o","n">>,
     <<"e","x","p","e","r","i","m","e","n","t","e">>, <<"t","r","y">>,
     <<"t","e","s","t","e">>, <<"t","e","s","t">> >>

\* detect_cta_elements where only the bottom-right region counts as strategic
detect_cta_elements_bottom_right(image_size, text_segments) ==
  LET image_width == image_size[1]
      image_height == image_size[2]
      keywords_found(segment) ==
        SelectSeq(CTA_KEYWORDS, LAMBDA kw : Contains(Lower(segment.text), Lower(kw)))
      hits == SelectSeq(text_segments, LAMBDA seg : keywords_found(seg) # <<>>)
      element(segment) ==
        LET bbox == segment.bbox
            twice_x == bbox.xmin + bbox.xmax
            twice_y == bbox.ymin + bbox.ymax
            area == (bbox.xmax - bbox.xmin) * (bbox.ymax - bbox.ymin)
        IN  [text |-> segment.text,
             keywords |-> keywords_found(segment),
             bbox |-> bbox,
             position |-> [x |-> twice_x \div 2, y |-> twice_y \div 2,
                           normalized_x |-> RoundDiv(twice_x * 1000, 2 * image_width),
                           normalized_y |-> RoundDiv(twice_y * 1000, 2 * image_height)],
             is_strategic_position |->
               10 * twice_x > 12 * image_width /\ 10 * twice_y > 12 * image_height,
             relative_size |-> RoundDiv(area * 10000, image_width * image_height),
             confidence |-> segment.confidence]
  IN  [i \in DOMAIN hits |-> element(hits[i])]

\* CTAService.detect_cta_elements(image, text_segments); image_size is
\* <<image_width, image_height>>; normalized coordinates in thousandths,
\* relative_size in hundredths of a percent
detect_cta_elements(image_size, text_segments) ==
  LET image_width == image_size[1]
      image_height == image_size[2]
      keywords_found(segment) ==
        SelectSeq(CTA_KEYWORDS, LAMBDA kw : Contains(Lower(segment.text), Lower(kw)))
      hits == SelectSeq(text_segments, LAMBDA seg : keywords_found(seg) # <<>>)
      element(segment) ==
        LET bbox == segment.bbox
            twice_x == bbox.xmin + bbox.xmax
            twice_y == bbox.ymin + bbox.ymax
            area == (bbox.xmax - bbox.xmin) * (bbox.ymax - bbox.ymin)
        IN  [text |-> segment.text,
             keywords |-> keywords_found(segment),
             bbox |-> bbox,
             position |-> [x |-> twice_x \div 2, y |-> twice_y \div 2,
                           normalized_x |-> RoundDiv(twice_x * 1000, 2 * image_width),
                           normalized_y |-> RoundDiv(twice_y * 1000, 2 * image_height)],
             is_strategic_position |->
               \/ 10 * twice_x > 12 * image_width /\ 10 * twice_y > 12 * image_height
               \/ /\ 10 * twice_x > 8 * image_width
                  /\ 10 * twice_x < 12 * image_width
                  /\ 10 * twice_y > 14 * image_height,
             relative_size |-> RoundDiv(area * 10000, image_width * image_height),
             confidence |-> segment.confidence]
  IN  [i \in DOMAIN hits |-> element(hits[i])]

\* a recommendation is the pair [cta, text]: the sentence `text` formatted
\* around the text of the CTA it names, or a fixed sentence, which names none
Plain(sentence) == [cta |-> <<>>, text |-> sentence]

\* analyze_cta_effectiveness where a relative_size of exactly 2.0 earns the size
\* points
analyze_cta_effectiveness_size_inclusive(cta_elements, color_analysis) ==
  IF cta_elements = <<>>
  THEN [cta_present |-> FALSE, effectiveness_score |-> 0,
        recommendations |-> <<Plain("Adicione um Call-to-Action claro e visível")>>]
  ELSE LET score(cta) ==
             (IF cta.is_strategic_position THEN 300 ELSE 0)
             + (IF cta.relative_size >= 200 THEN 300 ELSE 0)
             + cta.confidence * 2
             + (IF Get(color_analysis, "average_contrast", 0) > 450 THEN 200 ELSE 0)
           total == SumSeq([i \in DOMAIN cta_elements |-> score(cta_elements[i])])
           RECURSIVE recs(_)
           recs(ctas) ==
             IF ctas = <<>> THEN <<>>
             ELSE (IF Head(ctas).is_strategic_position THEN <<>>
                   ELSE <<[cta |-> Head(ctas).text,
                           text |-> "poderia estar em posição mais estratégica (inferior direito)"]>>)
                  \o (IF Head(ctas).relative_size <= 200 /\ Head(ctas).relative_size < 50
                      THEN <<[cta |-> Head(ctas).text,
                              text |-> "é muito pequeno para ser facilmente notado"]>>
                      ELSE <<>>)
                  \o recs(Tail(ctas))
           recommendations ==
             recs(cta_elements)
             \o (IF 2 * total < Len(cta_elements) * 1000
                 THEN <<Plain("Melhore visibilidade do CTA aumentando contraste e tamanho")>>
                 ELSE <<>>)
       IN  [cta_present |-> TRUE,
            cta_count |-> Len(cta_elements),
            effectiveness_score |-> RoundDiv(total, 10 * Len(cta_elements)),
            recommendations |-> IF recommendations # <<>> THEN recommendations
                                ELSE <<Plain("CTAs bem posicionados e visíveis")>>]

\* CTAService.analyze_cta_effectiveness(cta_elements, color_analysis); scores in
\* thousandths inside, effectiveness_score in hundredths
analyze_cta_effectiveness(cta_elements, color_analysis) ==
  IF cta_elements = <<>>
  THEN [cta_present |-> FALSE, effectiveness_score |-> 0,
        recommendations |-> <<Plain("Adicione um Call-to-Action claro e visível")>>]
  ELSE LET score(cta) ==
             (IF cta.is_strategic_position THEN 300 ELSE 0)
             + (IF cta.relative_size > 200 THEN 300 ELSE 0)
             + cta.confidence * 2
             + (IF Get(color_analysis, "average_contrast", 0) > 450 THEN 200 ELSE 0)
           total == SumSeq([i \in DOMAIN cta_elements |-> score(cta_elements[i])])
           RECURSIVE recs(_)
           recs(ctas) ==
             IF ctas = <<>> THEN <<>>
             ELSE (IF Head(ctas).is_strategic_position THEN <<>>
                   ELSE <<[cta |-> Head(ctas).text,
                           text |-> "poderia estar em posição mais estratégica (inferior direito)"]>>)
                  \o (IF Head(ctas).relative_size <= 200 /\ Head(ctas).relative_size < 50
                      THEN <<[cta |-> Head(ctas).text,
                              text |-> "é muito pequeno para ser facilmente notado"]>>
                      ELSE <<>>)
                  \o recs(Tail(ctas))
           recommendations ==
             recs(cta_elements)
             \o (IF 2 * total < Len(cta_elements) * 1000
                 THEN <<Plain("Melhore visibilidade do CTA aumentando contraste e tamanho")>>
                 ELSE <<>>)
       IN  [cta_present |-> TRUE,
            cta_count |-> Len(cta_elements),
            effectiveness_score |-> RoundDiv(total, 10 * Len(cta_elements)),
            recommendations |-> IF recommendations # <<>> THEN recommendations
                                ELSE <<Plain("CTAs bem posicionados e visíveis")>>]

(***************************************************************************)
(* Narrative heuristic (src/services/narrative.py)                         *)
(***************************************************************************)
Chars ==
  [person |-> <<"p","e","r","s","o","n">>,
   clock |-> <<"c","l","o","c","k">>,
   watch |-> <<"w","a","t","c","h">>,
   timer |-> <<"t","i","m","e","r">>,
   hourglass |-> <<"h","o","u","r","g","l","a","s","s">>,
   car |-> <<"c","a","r">>,
   flag |-> <<"f","l","a","g">>,
   cross |-> <<"c","r","o","s","s">>,
   star |-> <<"s","t","a","r">>,
   crown |-> <<"c","r","o","w","n">>,
   money |-> <<"m","o","n","e","y">>,
   dollar |-> <<"d","o","l","l","a","r">>,
   dog |-> <<"d","o","g">>,
   cup |-> <<"c","u","p">>,
   book |-> <<"b","o","o","k">>]

urgency_keywords ==
  << <<"a","g","o","r","a">>, <<"u","r","g","e","n","t","e">>,
     <<"l","i","m","i","t","a","d","o">>, <<"ú","l","t","i","m","a","s">>,
     <<"r","e","s","t","a","m">>, <<"a","p","r","o","v","e","i","t","e">>,
     <<"c","o","r","r","a">>, <<"r","á","p","i","d","o">> >>

\* a variant of scene_emotion_of whose default is "happy"
scene_emotion_of_happy(emotions) == Get(emotions, "scene_emotion", "happy")

\* emotion = emotions.get("scene_emotion", "neutral")   (narrative.py 28)
scene_emotion_of(emotions) == Get(emotions, "scene_emotion", "neutral")

\* analyze_narrative where a time-related object raises the surprise score as
\* an urgency keyword in the text does
analyze_narrative_time_symbols(objects, emotions, text, colors) ==
  IF ~(DOMAIN emotions \subseteq STRING /\ DOMAIN text \subseteq STRING
       /\ DOMAIN colors \subseteq STRING)
  THEN [implicit_story |-> "indefinido", error |-> "str(e)"]
  ELSE LET object_names == [i \in DOMAIN objects |-> Get(objects[i], "name", <<>>)]
           emotion == scene_emotion_of(emotions)
           text_content == Lower(Get(text, "full_text", <<>>))
           color_palette == Get(colors, "emotion_palette", "neutral")
           \* "warm" in color_palette etc., on the closed set of palette tags
           HasWarm == color_palette = "warm-energetic"
           HasDark == color_palette = "dark"
           HasNeutral == color_palette = "neutral"
           narrative_elements ==
             IF emotion = "happy" /\ HasWarm THEN <<"coerencia_emocional_positiva">>
             ELSE IF (emotion = "sad" /\ HasDark) \/ HasNeutral
                  THEN <<"coerencia_emocional_neutra">>
             ELSE <<>>
           scarcity_detected ==
             \E k \in DOMAIN urgency_keywords : Contains(text_content, urgency_keywords[k])
           time_objects == {Chars.clock, Chars.watch, Chars.timer, Chars.hourglass}
           has_time_symbols == \E o \in time_objects : o \in Range(object_names)
           story == IF Chars.person \in Range(object_names) /\ emotion = "happy"
                      THEN "pessoa_feliz"
                    ELSE IF Len(object_names) > 3 THEN "cena_complexa"
                    ELSE IF scarcity_detected \/ has_time_symbols THEN "urgencia_acao"
                    ELSE "narrativa_simples"
           story_meaning ==
             IF story = "pessoa_feliz"
               THEN "imagem transmite felicidade e conexão humana"
             ELSE IF story = "cena_complexa"
               THEN "múltiplos elementos criam narrativa rica e envolvente"
             ELSE IF story = "urgencia_acao"
               THEN "elementos de urgência despertam ação imediata"
             ELSE "narrativa direta e clara"
           incongruence_detected == emotion = "happy" /\ HasDark
           surprise_score == IF incongruence_detected THEN 70
                             ELSE IF scarcity_detected \/ has_time_symbols THEN 50
                             ELSE IF Len(object_names) > 5 THEN 30
                             ELSE 0
       IN  [implicit_story |-> story,
            story_meaning |-> story_meaning,
            narrative_elements |-> narrative_elements,
            scarcity_trigger_detected |-> scarcity_detected \/ has_time_symbols,
            scarcity_elements |->
              [text_keywords |-> SelectSeq(urgency_keywords,
                                           LAMBDA kw : Contains(text_content, kw)),
               time_symbols |-> SelectSeq(object_names, LAMBDA o : o \in time_objects)],
            incongruence_detected |-> incongruence_detected,
            incongruence_explanation |->
              IF incongruence_detected THEN <<"Contraste entre emoção positiva e paleta escura cria interesse">>
              ELSE <<>>,
            surprise_level |-> IF surprise_score > 60 THEN "alto"
                               ELSE IF surprise_score > 30 THEN "moderado"
                               ELSE "baixo",
            surprise_score |-> surprise_score,
            narrative_coherence |-> IF Len(narrative_elements) > 0 THEN "alta"
                                    ELSE "moderada",
            explicacao |->
              "Narrativa implícita: " \o story_meaning \o ". "
              \o (IF scarcity_detected \/ has_time_symbols
                  THEN "Elementos de escassez detectados despertam ação imediata. "
                  ELSE "")
              \o (IF incongruence_detected
                  THEN "Contraste visual cria interesse e quebra expectativas. "
                  ELSE "")
              \o "Em neuromarketing, narrativas coerentes aumentam engajamento, "
              \o "enquanto elementos de surpresa liberam dopamina e criam memorabilidade."]

\* NarrativeService.analyze_narrative(image, objects, emotions, text, colors).
\* The except branch is taken when an argument is not a dict (None.get raises).
analyze_narrative(objects, emotions, text, colors) ==
  IF ~(DOMAIN emotions \subseteq STRING /\ DOMAIN text \subseteq STRING
       /\ DOMAIN colors \subseteq STRING)
  THEN [implicit_story |-> "indefinido", error |-> "str(e)"]
  ELSE LET object_names == [i \in DOMAIN objects |-> Get(objects[i], "name", <<>>)]
           emotion == scene_emotion_of(emotions)
           text_content == Lower(Get(text, "full_text", <<>>))
           color_palette == Get(colors, "emotion_palette", "neutral")
           \* "warm" in color_palette etc., on the closed set of palette tags
           HasWarm == color_palette = "warm-energetic"
           HasDark == color_palette = "dark"
           HasNeutral == color_palette = "neutral"
           narrative_elements ==
             IF emotion = "happy" /\ HasWarm THEN <<"coerencia_emocional_positiva">>
             ELSE IF (emotion = "sad" /\ HasDark) \/ HasNeutral
                  THEN <<"coerencia_emocional_neutra">>
             ELSE <<>>
           scarcity_detected ==
             \E k \in DOMAIN urgency_keywords : Contains(text_content, urgency_keywords[k])
           time_objects == {Chars.clock, Chars.watch, Chars.timer, Chars.hourglass}
           has_time_symbols == \E o \in time_objects : o \in Range(object_names)
           story == IF Chars.person \in Range(object_names) /\ emotion = "happy"
                      THEN "pessoa_feliz"
                    ELSE IF Len(object_names) > 3 THEN "cena_complexa"
                    ELSE IF scarcity_detected \/ has_time_symbols THEN "urgencia_acao"
                    ELSE "narrativa_simples"
           story_meaning ==
             IF story = "pessoa_feliz"
               THEN "imagem transmite felicidade e conexão humana"
             ELSE IF story = "cena_complexa"
               THEN "múltiplos elementos criam narrativa rica e envolvente"
             ELSE IF story = "urgencia_acao"
               THEN "elementos de urgência despertam ação imediata"
             ELSE "narrativa direta e clara"
           incongruence_detected == emotion = "happy" /\ HasDark
           surprise_score == IF incongruence_detected THEN 70
                             ELSE IF scarcity_detected THEN 50
                             ELSE IF Len(object_names) > 5 THEN 30
                             ELSE 0
       IN  [implicit_story |-> story,
            story_meaning |-> story_meaning,
            narrative_elements |-> narrative_elements,
            scarcity_trigger_detected |-> scarcity_detected \/ has_time_symbols,
            scarcity_elements |->
              [text_keywords |-> SelectSeq(urgency_keywords,
                                           LAMBDA kw : Contains(text_content, kw)),
               time_symbols |-> SelectSeq(object_names, LAMBDA o : o \in time_objects)],
            incongruence_detected |-> incongruence_detected,
            incongruence_explanation |->
              IF incongruence_detected THEN <<"Contraste entre emoção positiva e paleta escura cria interesse">>
              ELSE <<>>,
            surprise_level |-> IF surprise_score > 60 THEN "alto"
                               ELSE IF surprise_score > 30 THEN "moderado"
                               ELSE "baixo",
            surprise_score |-> surprise_score,
            narrative_coherence |-> IF Len(narrative_elements) > 0 THEN "alta"
                                    ELSE "moderada",
            explicacao |->
              "Narrativa implícita: " \o story_meaning \o ". "
              \o (IF scarcity_detected \/ has_time_symbols
                  THEN "Elementos de escassez detectados despertam ação imediata. "
                  ELSE "")
              \o (IF incongruence_detected
                  THEN "Contraste visual cria interesse e quebra expectativas. "
                  ELSE "")
              \o "Em neuromarketing, narrativas coerentes aumentam engajamento, "
              \o "enquanto elementos de surpresa liberam dopamina e criam memorabilidade."]

(***************************************************************************)
(* Inputs.  The images the runs are given, and the two kinds of trouble a  *)
(* run can meet: a capability that is missing in the process (an optional  *)
(* import failed, a model could not be loaded) and a library call that     *)
(* raises on this run.                                                     *)
(***************************************************************************)
Red == <<224, 40, 40>>
Blue == <<40, 70, 230>>
Black == <<10, 10, 10>>
Gray == <<128, 128, 128>>

\* a uniform gray picture: no text, no face, no object, flat saliency
ImgPlain ==
  [size |-> <<640, 480>>,
   pixels |-> <<Gray, Gray, Gray, Gray, Gray, Gray, Gray, Gray, Gray, Gray>>,
   text |-> <<>>, faces |-> <<>>, gaze |-> <<>>, body |-> <<>>, objs |-> <<>>,
   caption |-> "a gray wall", caption_words |-> 3,
   sharpness |-> <<0, 0, 0, 0, 0>>,
   symmetry |-> [h |-> 1000, v |-> 1000],
   light |-> [avg |-> 1370, std |-> 0, r |-> 12800, b |-> 12800],
   texture |-> [lbp |-> <<24, 24, 24, 24>>, gradient_variance |-> 0],
   scene |-> [green |-> 0, gray |-> 1000, blue |-> 0],
   saliency |-> [grid |-> << <<0, 0, 0>>, <<0, 0, 0>> >>, peaks |-> <<>>],
   saliency_fallback |-> [grid |-> << <<0, 0, 0>>, <<0, 0, 0>> >>, peaks |-> <<>>]]

\* an advertisement: a smiling person on a red ground, a clock, and a
\* "Compre Agora" button at the bottom right
ImgAd ==
  [ImgPlain EXCEPT
     !.pixels = <<Red, Red, Red, Red, Gray, Gray, Gray, Black, Black, Blue>>,
     !.text = <<[text |-> <<"F","r","e","t","e">>, confidence |-> 80,
                 bbox |-> [xmin |-> 20, ymin |-> 20, xmax |-> 120, ymax |-> 50]],
                [text |-> <<"C","o","m","p","r","e"," ","A","g","o","r","a">>, confidence |-> 90,
                 bbox |-> [xmin |-> 420, ymin |-> 380, xmax |-> 620, ymax |-> 440]]>>,
     !.faces = <<[dominant_emotion |-> "happy", dominant_confidence |-> 930]>>,
     !.gaze = <<[direction |-> "frente", gaze_target_region |-> "central-centro"]>>,
     !.body = <<12>>,
     !.objs = <<[name |-> Chars.person, confidence |-> 91],
                [name |-> Chars.clock, confidence |-> 64]>>,
     !.caption = "a woman smiling", !.caption_words = 3,
     !.sharpness = <<120000, 80000, 30000, 310000, 90000>>,
     !.symmetry = [h |-> 620, v |-> 400],
     !.light = [avg |-> 1600, std |-> 450, r |-> 15000, b |-> 9000],
     !.texture = [lbp |-> [i \in 1..(lbp_n_points + 2) |-> i - 1], gradient_variance |-> 26000],
     !.scene = [green |-> 30, gray |-> 120, blue |-> 60],
     !.saliency = [grid |-> << <<0, 10, 20>>, <<10, 60, 255>> >>,
                   peaks |-> <<[x |-> 2, y |-> 1, score |-> 1000],
                               [x |-> 1, y |-> 1, score |-> 235]>>],
     !.saliency_fallback = [grid |-> << <<0, 128, 0>>, <<0, 128, 0>> >>,
                            peaks |-> <<[x |-> 1, y |-> 0, score |-> 502]>>]]

\* half red, half blue, one happy and one sad face
ImgTie ==
  [ImgAd EXCEPT
     !.pixels = <<Red, Blue, Red, Blue, Red, Blue, Red, Blue, Red, Blue>>,
     !.text = <<>>,
     !.faces = <<[dominant_emotion |-> "sad", dominant_confidence |-> 700],
                 [dominant_emotion |-> "happy", dominant_confidence |-> 810]>>,
     !.body = <<>>,
     !.objs = <<[name |-> Chars.person, confidence |-> 75],
                [name |-> Chars.person, confidence |-> 70],
                [name |-> Chars.dog, confidence |-> 66],
                [name |-> Chars.cup, confidence |-> 58]>>]

\* a dark picture with a smiling face and an urgency text that holds no CTA
\* keyword
ImgDark ==
  [ImgAd EXCEPT
     !.pixels = <<Black, Black, Black, Black, Black, Black, Black, Black, Red, Gray>>,
     !.text = <<[text |-> <<"Ú","L","T","I","M","A","S"," ","u","n","i","d","a","d","e","s">>, confidence |-> 70,
                 bbox |-> [xmin |-> 40, ymin |-> 30, xmax |-> 200, ymax |-> 60]]>>,
     !.objs = <<[name |-> Chars.person, confidence |-> 86]>>,
     !.light = [avg |-> 300, std |-> 200, r |-> 2000, b |-> 0]]

Images == {ImgPlain, ImgAd, ImgTie, ImgDark}

\* optional capabilities of a process: the module-level *_AVAILABLE flags and
\* the models the service constructors load
Capabilities == {"easyocr", "deepface", "mediapipe", "blip", "skimage", "cv2_saliency"}

\* library calls that can raise during a run
RaisePoints ==
  {"detect", "readtext", "colors", "deepface_noface", "deepface_other", "face_mesh",
   "pose", "depth", "symmetry", "lighting", "texture", "scene", "saliency_primary",
   "saliency_fallback", "attention_points", "attention_dist", "caption"}

\* how many capabilities may be missing and calls may raise in one run
MaxDegraded == 2

\* the subsets of S with at most k elements
RECURSIVE UpTo(_, _)
UpTo(S, k) ==
  IF k = 0 THEN {{}}
  ELSE UpTo(S, k - 1) \cup {T \cup {x} : T \in UpTo(S, k - 1), x \in S}

(***************************************************************************)
(* State                                                                   *)
(***************************************************************************)
VARIABLES
  model_sample_model, \* app.py global: 0 is None, n > 0 the n-th YOLO object built
  constructed,        \* how many YOLO objects have been built
  global_writes,      \* how many times model_sample_model was assigned
  hash_seed,          \* the str hash seed of the process
  missing,            \* the capabilities missing in the process
  raises,             \* the library calls that raise during this run
  input_image,        \* the decoded image of the run
  entry,              \* "analyze_neuromarketing" or "img_neuromarketing_report"
  pc,                 \* position in the entry point's steps
  status,             \* "running", "returned", "raised", "http_400",
                      \* "http_200", "http_500"
  loc,                \* the local variables bound so far, and under
                      \* "cta_args" and "narrative_args" the arguments the
                      \* two dependent analyses were called with
  results,            \* the dict the entry point builds and returns
  trace,              \* the service functions called so far, in call order
  threads,            \* concurrent load_model callers: thread -> [pc, seen, ret]
  pure                \* the inputs and outputs of a pure function under test

procVars == <<model_sample_model, constructed, global_writes, hash_seed, missing>>
runVars == <<raises, input_image, entry, pc, status, loc, results, trace>>
vars == <<procVars, runVars, threads, pure>>

\* the statements of analyze_neuromarketing (app.py 208-354), in program order
OrchSteps ==
  << "detect", "ocr", "colors", "emotion", "gaze", "pose", "contraste", "depth",
     "symmetry", "plano", "lighting", "simbolos", "attention", "texture", "scene",
     "cta", "narrative", "return" >>

\* the statements of img_neuromarketing_report (main.py 744-824), in program order
HandlerSteps ==
  << "detect", "ocr", "colors", "caption", "emotion", "attention", "cta", "summary" >>

Steps(e) == IF e = "analyze_neuromarketing" THEN OrchSteps ELSE HandlerSteps

\* control is at `step` of entry point e
At(e, step) ==
  /\ entry = e
  /\ status = "running"
  /\ pc \in DOMAIN Steps(e)
  /\ Steps(e)[pc] = step

\* the state after module import and service construction, a request decoded
Init ==
  /\ model_sample_model = 0
  /\ constructed = 0
  /\ global_writes = 0
  /\ hash_seed \in 1..NumSeeds
  /\ \E degraded \in UpTo(Capabilities \cup RaisePoints, MaxDegraded) :
        /\ missing = degraded \cap Capabilities
        /\ raises = degraded \cap RaisePoints
  /\ input_image \in Images
  /\ entry \in {"analyze_neuromarketing", "img_neuromarketing_report"}
  /\ pc = 1
  /\ status = "running"
  /\ loc = <<>>
  /\ results = <<>>
  /\ trace = <<>>
  /\ threads = <<>>
  /\ pure = <<>>

\* load_model(), run without interruption: the handle after the call, and
\* whether a YOLO object was built
load_model_atomic(handle, built) ==
  IF handle = 0 THEN [handle |-> built + 1, built |-> built + 1, wrote |-> 1]
  ELSE [handle |-> handle, built |-> built, wrote |-> 0]

\* a variant of text_segments_of that ignores the OCR result
text_segments_of_nothing(ocr_result) == <<>>

\* text_segments = ocr_result.get("segments", [])   (app.py 322, main.py 777)
text_segments_of(ocr_result) == Get(ocr_result, "segments", <<>>)

(***************************************************************************)
(* analyze_neuromarketing (src/app.py): one action per numbered section    *)
(***************************************************************************)
Orch == "analyze_neuromarketing"

\* 1. detect_sample_model and objects_list; an exception leaves the function
OrchDetect ==
  /\ At(Orch, "detect")
  /\ trace' = Append(trace, "detect_sample_model")
  /\ LET m == load_model_atomic(model_sample_model, constructed)
     IN  /\ model_sample_model' = m.handle
         /\ constructed' = m.built
         /\ global_writes' = global_writes + m.wrote
  /\ IF "detect" \in raises
     THEN /\ status' = "raised"
          /\ UNCHANGED <<pc, loc, results>>
     ELSE LET objects_list == input_image.objs
          IN  /\ loc' = Bind(loc, "objects_list", objects_list)
              /\ results' =
                   Bind(Bind(results, "objetos", objects_list), "numero_de_pessoas",
                        Len(SelectSeq(objects_list, LAMBDA o : o.name = Chars.person)))
              /\ pc' = pc + 1
              /\ UNCHANGED status
  /\ UNCHANGED <<hash_seed, missing, raises, input_image, entry, threads, pure>>

\* 2. OCR
OrchOcr ==
  /\ At(Orch, "ocr")
  /\ trace' = Append(trace, "extract_text")
  /\ LET ocr_result == extract_text(input_image, "easyocr" \notin missing,
                                    "readtext" \in raises)
     IN  /\ loc' = Bind(loc, "ocr_result", ocr_result)
         /\ results' = Bind(results, "texto_em_imagem", ocr_result)
  /\ pc' = pc + 1
  /\ UNCHANGED <<procVars, raises, input_image, entry, status, threads, pure>>

\* 3. colors
OrchColors ==
  /\ At(Orch, "colors")
  /\ trace' = Append(trace, "analyze_image_colors")
  /\ LET color_result == analyze_image_colors(input_image.pixels, "colors" \in raises,
                                              hash_seed)
     IN  /\ loc' = Bind(loc, "color_result", color_result)
         /\ results' =
              Bind(Bind(results, "cores_dominantes", color_result), "emocao_das_cores",
                   [paleta_emocional |-> Get(color_result, "emotion_palette", "neutral"),
                    cores |-> Get(color_result, "dominant_colors", <<>>)])
  /\ pc' = pc + 1
  /\ UNCHANGED <<procVars, raises, input_image, entry, status, threads, pure>>

\* what DeepFace.analyze raises on this run
DeepFaceException ==
  IF "deepface_noface" \in raises THEN "noface"
  ELSE IF "deepface_other" \in raises THEN "other"
  ELSE "none"

\* 4. emotions
OrchEmotion ==
  /\ At(Orch, "emotion")
  /\ trace' = Append(trace, "detect_emotions")
  /\ LET emotion_result == detect_emotions(input_image, "deepface" \notin missing,
                                           DeepFaceException, hash_seed)
     IN  /\ loc' = Bind(loc, "emotion_result", emotion_result)
         /\ results' =
              Bind(results, "expressao_emocional",
                   [faces_detectadas |-> Get(emotion_result, "faces_detected", 0),
                    emocao_dominante |-> Get(emotion_result, "scene_emotion", "neutral"),
                    confianca_media |-> Get(emotion_result, "average_confidence", 0),
                    detalhes |-> emotion_result])
  /\ pc' = pc + 1
  /\ UNCHANGED <<procVars, raises, input_image, entry, status, threads, pure>>

\* 5. gaze
OrchGaze ==
  /\ At(Orch, "gaze")
  /\ trace' = Append(trace, "estimate_gaze_direction")
  /\ results' = Bind(results, "direcao_olhar",
                     estimate_gaze_direction(input_image, "mediapipe" \notin missing,
                                             "face_mesh" \in raises))
  /\ pc' = pc + 1
  /\ UNCHANGED <<procVars, raises, input_image, entry, status, loc, threads, pure>>

\* 6. body language and movement
OrchPose ==
  /\ At(Orch, "pose")
  /\ trace' = Append(trace, "analyze_body_language")
  /\ LET pose_result == analyze_body_language(input_image, "mediapipe" \notin missing,
                                              "pose" \in raises)
     IN  results' =
           Bind(Bind(results, "postura_corporea", pose_result), "sensacao_de_movimento",
                [nivel |-> Get(pose_result, "movement_sensation", "nenhum"),
                 explicacao |-> Get(pose_result, "movement_explanation", "")])
  /\ pc' = pc + 1
  /\ UNCHANGED <<procVars, raises, input_image, entry, status, loc, threads, pure>>

\* 7. visual contrast
OrchContraste ==
  /\ At(Orch, "contraste")
  /\ results' = Bind(results, "contraste_local",
                     [contraste_medio |-> Get(loc.color_result, "average_contrast", 0),
                      explicacao |-> "Contraste alto guia atenção e cria hierarquia visual"])
  /\ pc' = pc + 1
  /\ UNCHANGED <<procVars, raises, input_image, entry, status, loc, trace, threads, pure>>

\* 8. depth of field
OrchDepth ==
  /\ At(Orch, "depth")
  /\ trace' = Append(trace, "analyze_depth_of_field")
  /\ results' = Bind(results, "profundidade_de_campo",
                     analyze_depth_of_field(input_image, "depth" \in raises))
  /\ pc' = pc + 1
  /\ UNCHANGED <<procVars, raises, input_image, entry, status, loc, threads, pure>>

\* 9. symmetry
OrchSymmetry ==
  /\ At(Orch, "symmetry")
  /\ trace' = Append(trace, "analyze_symmetry")
  /\ results' = Bind(results, "simetria_visual",
                     analyze_symmetry(input_image, "symmetry" \in raises))
  /\ pc' = pc + 1
  /\ UNCHANGED <<procVars, raises, input_image, entry, status, loc, threads, pure>>

\* 10. framing, from the detected people
OrchPlano ==
  /\ At(Orch, "plano")
  /\ LET people_objects == SelectSeq(loc.objects_list, LAMBDA o : o.name = Chars.person)
         plano == IF people_objects = <<>> THEN "indefinido"
                  ELSE IF Len(people_objects) = 1 /\ people_objects[1].confidence > 80
                       THEN "close_up"
                  ELSE IF Len(people_objects) <= 2 THEN "medio"
                  ELSE "aberto"
         plano_meaning ==
           IF plano = "indefinido"
             THEN "sem pessoas detectadas para determinar enquadramento"
           ELSE IF plano = "close_up"
             THEN "close-up transmite intimidade e conexão emocional"
           ELSE IF plano = "medio"
             THEN "plano médio transmite contexto e relacionamento"
           ELSE "plano aberto transmite status e ambiente"
     IN  results' = Bind(results, "tipo_de_plano",
                         [plano |-> plano, significado |-> plano_meaning])
  /\ pc' = pc + 1
  /\ UNCHANGED <<procVars, raises, input_image, entry, status, loc, trace, threads, pure>>

\* 11. lighting
OrchLighting ==
  /\ At(Orch, "lighting")
  /\ trace' = Append(trace, "analyze_lighting")
  /\ results' = Bind(results, "iluminacao_emocional",
                     analyze_lighting(input_image, "lighting" \in raises))
  /\ pc' = pc + 1
  /\ UNCHANGED <<procVars, raises, input_image, entry, status, loc, threads, pure>>

\* 12. social symbols among the detected objects
OrchSimbolos ==
  /\ At(Orch, "simbolos")
  /\ LET simbolos_sociais == {Chars.flag, Chars.cross, Chars.star, Chars.crown,
                              Chars.money, Chars.dollar}
         hits == SelectSeq(loc.objects_list,
                           LAMBDA o : \E s \in simbolos_sociais : Contains(Lower(o.name), s))
         simbolos == [i \in DOMAIN hits |-> hits[i].name]
     IN  results' = Bind(results, "simbolos_sociais",
                         [simbolos_detectados |-> simbolos,
                          explicacao |-> IF simbolos # <<>>
                                         THEN "Símbolos sociais despertam pertencimento e status"
                                         ELSE "Nenhum símbolo social detectado"])
  /\ pc' = pc + 1
  /\ UNCHANGED <<procVars, raises, input_image, entry, status, loc, trace, threads, pure>>
\* the saliency map as this run computes it
SaliencyMap ==
  calculate_saliency_map(input_image, "cv2_saliency" \notin missing,
                         "saliency_primary" \in raises, "saliency_fallback" \in raises)

\* 13. focal point: both service methods compute the saliency map themselves
OrchAttention ==
  /\ At(Orch, "attention")
  /\ trace' = trace \o << "analyze_attention_distribution", "calculate_saliency_map",
                          "find_attention_points", "calculate_saliency_map" >>
  /\ LET attention_result == analyze_attention_distribution(SaliencyMap,
                                                            "attention_dist" \in raises)
         attention_points == find_attention_points(SaliencyMap, 5,
                                                   "attention_points" \in raises)
     IN  results' = Bind(results, "area_de_atencao_visual",
                         Bind(attention_result, "pontos_de_atencao", attention_points))
  /\ pc' = pc + 1
  /\ UNCHANGED <<procVars, raises, input_image, entry, status, loc, threads, pure>>

\* 14. texture
OrchTexture ==
  /\ At(Orch, "texture")
  /\ trace' = Append(trace, "analyze_texture")
  /\ results' = Bind(results, "textura_sensorial",
                     analyze_texture(input_image, "skimage" \notin missing,
                                     "texture" \in raises))
  /\ pc' = pc + 1
  /\ UNCHANGED <<procVars, raises, input_image, entry, status, loc, threads, pure>>

\* 15. nature against technology
OrchScene ==
  /\ At(Orch, "scene")
  /\ trace' = Append(trace, "classify_scene")
  /\ results' = Bind(results, "natureza_vs_tecnologia",
                     classify_scene(input_image, "scene" \in raises))
  /\ pc' = pc + 1
  /\ UNCHANGED <<procVars, raises, input_image, entry, status, loc, threads, pure>>

\* 16. urgency elements from the OCR segments, and 17. texts and typography
OrchCta ==
  /\ At(Orch, "cta")
  /\ trace' = Append(trace, "detect_cta_elements")
  /\ LET text_segments == text_segments_of(loc.ocr_result)
         cta_elements == detect_cta_elements(input_image.size, text_segments)
     IN  /\ loc' = Bind(loc, "cta_args", [text_segments |-> text_segments])
         /\ results' =
              Bind(Bind(results, "gatilho_escassez_visual",
                        [ctas_detectados |-> Len(cta_elements) > 0,
                         elementos_cta |-> cta_elements,
                         explicacao |->
                           IF cta_elements # <<>>
                           THEN "CTAs e elementos de urgência despertam ação imediata"
                           ELSE "Nenhum elemento de urgência detectado"]),
                   "textos_e_tipografia",
                   [texto_completo |-> Get(loc.ocr_result, "full_text", <<>>),
                    segmentos |-> text_segments,
                    explicacao |->
                      "Textos com verbos de ação reforçam estímulos de neuromarketing"])
  /\ pc' = pc + 1
  /\ UNCHANGED <<procVars, raises, input_image, entry, status, threads, pure>>

\* 18. surprise and 19. implicit story, from the narrative analysis
OrchNarrative ==
  /\ At(Orch, "narrative")
  /\ trace' = Append(trace, "analyze_narrative")
  /\ LET narrative_result == analyze_narrative(loc.objects_list, loc.emotion_result,
                                               loc.ocr_result, loc.color_result)
     IN  /\ loc' = Bind(Bind(loc, "narrative_result", narrative_result), "narrative_args",
                        [objects |-> loc.objects_list, emotions |-> loc.emotion_result,
                         text |-> loc.ocr_result, colors |-> loc.color_result])
         /\ results' =
              Bind(Bind(results, "efeito_surpresa_ou_ironia",
                        [incongruencia_detectada |->
                           Get(narrative_result, "incongruence_detected", FALSE),
                         nivel_surpresa |-> Get(narrative_result, "surprise_level", "baixo"),
                         explicacao |->
                           Get(narrative_result, "incongruence_explanation", <<>>)]),
                   "historia_implicita",
                   [narrativa |-> Get(narrative_result, "implicit_story", "indefinido"),
                    significado |-> Get(narrative_result, "story_meaning", ""),
                    coerencia |-> Get(narrative_result, "narrative_coherence", "moderada")])
  /\ pc' = pc + 1
  /\ UNCHANGED <<procVars, raises, input_image, entry, status, threads, pure>>

\* return results
OrchReturn ==
  /\ At(Orch, "return")
  /\ status' = "returned"
  /\ UNCHANGED <<procVars, raises, input_image, entry, pc, loc, results, trace,
                 threads, pure>>
(***************************************************************************)
(* POST /img_neuromarketing_report (src/main.py): every statement sits in  *)
(* one try block whose except turns any exception into HTTP 400            *)
(***************************************************************************)
Handler == "img_neuromarketing_report"

\* 1. object detection
HDetect ==
  /\ At(Handler, "detect")
  /\ trace' = Append(trace, "detect_sample_model")
  /\ LET m == load_model_atomic(model_sample_model, constructed)
     IN  /\ model_sample_model' = m.handle
         /\ constructed' = m.built
         /\ global_writes' = global_writes + m.wrote
  /\ IF "detect" \in raises
     THEN /\ status' = "http_400"
          /\ UNCHANGED <<pc, loc>>
     ELSE /\ loc' = Bind(loc, "objects", input_image.objs)
          /\ pc' = pc + 1
          /\ UNCHANGED status
  /\ UNCHANGED <<hash_seed, missing, raises, input_image, entry, results, threads, pure>>

\* 2. OCR
HOcr ==
  /\ At(Handler, "ocr")
  /\ trace' = Append(trace, "extract_text")
  /\ loc' = Bind(loc, "ocr_result",
                 extract_text(input_image, "easyocr" \notin missing, "readtext" \in raises))
  /\ pc' = pc + 1
  /\ UNCHANGED <<procVars, raises, input_image, entry, status, results, threads, pure>>

\* 3. colors
HColors ==
  /\ At(Handler, "colors")
  /\ trace' = Append(trace, "analyze_image_colors")
  /\ loc' = Bind(loc, "color_result",
                 analyze_image_colors(input_image.pixels, "colors" \in raises, hash_seed))
  /\ pc' = pc + 1
  /\ UNCHANGED <<procVars, raises, input_image, entry, status, results, threads, pure>>

\* 4. caption
HCaption ==
  /\ At(Handler, "caption")
  /\ trace' = Append(trace, "generate_caption")
  /\ loc' = Bind(loc, "caption_result",
                 generate_caption(input_image, "blip" \notin missing, "caption" \in raises))
  /\ pc' = pc + 1
  /\ UNCHANGED <<procVars, raises, input_image, entry, status, results, threads, pure>>

\* 5. emotions
HEmotion ==
  /\ At(Handler, "emotion")
  /\ trace' = trace \o <<"detect_emotions", "analyze_emotional_impact">>
  /\ LET emotion_result == detect_emotions(input_image, "deepface" \notin missing,
                                           DeepFaceException, hash_seed)
     IN  loc' = Bind(Bind(loc, "emotion_result", emotion_result), "emotional_impact",
                     analyze_emotional_impact(emotion_result))
  /\ pc' = pc + 1
  /\ UNCHANGED <<procVars, raises, input_image, entry, status, results, threads, pure>>

\* 6. attention
HAttention ==
  /\ At(Handler, "attention")
  /\ trace' = trace \o << "analyze_attention_distribution", "calculate_saliency_map",
                          "find_attention_points", "calculate_saliency_map" >>
  /\ LET attention_dist == analyze_attention_distribution(SaliencyMap,
                                                          "attention_dist" \in raises)
         attention_points == find_attention_points(SaliencyMap, 5,
                                                   "attention_points" \in raises)
         with_points == Bind(attention_dist, "attention_points", attention_points)
     IN  loc' = Bind(loc, "attention_dist",
                     IF "primary_focus_zone" \in DOMAIN with_points THEN with_points
                     ELSE Bind(with_points, "primary_focus_zone", "unknown"))
  /\ pc' = pc + 1
  /\ UNCHANGED <<procVars, raises, input_image, entry, status, results, threads, pure>>

\* 7. CTAs
HCta ==
  /\ At(Handler, "cta")
  /\ trace' = trace \o <<"detect_cta_elements", "analyze_cta_effectiveness">>
  /\ LET text_segments == text_segments_of(loc.ocr_result)
         cta_elements == detect_cta_elements(input_image.size, text_segments)
         cta_effectiveness == analyze_cta_effectiveness(cta_elements, loc.color_result)
     IN  loc' = Bind(Bind(Bind(loc, "text_segments", text_segments),
                          "cta_args", [text_segments |-> text_segments]),
                     "cta_result",
                     [cta_present |-> Len(cta_elements) > 0,
                      cta_count |-> Len(cta_elements),
                      cta_elements |-> cta_elements,
                      effectiveness_score |->
                        Get(cta_effectiveness, "effectiveness_score", 0),
                      recommendations |-> Get(cta_effectiveness, "recommendations", <<>>)])
  /\ pc' = pc + 1
  /\ UNCHANGED <<procVars, raises, input_image, entry, status, results, threads, pure>>

\* the executive summary and its recommendations (main.py 789-813)
Summary(l) ==
  LET summary ==
        [total_objects |-> Len(l.objects),
         text_present |-> Len(l.text_segments) > 0,
         faces_detected |-> Get(l.emotion_result, "faces_detected", 0),
         scene_emotion |-> Get(l.emotion_result, "scene_emotion", "neutral"),
         emotional_impact |-> Get(l.emotional_impact, "emotional_impact", "neutral-low"),
         attention_score |-> Get(l.attention_dist, "attention_score", 0),
         cta_present |-> Get(l.cta_result, "cta_present", FALSE),
         cta_effectiveness |-> Get(l.cta_result, "effectiveness_score", 0),
         color_palette |-> Get(l.color_result, "emotion_palette", "neutral")]
  IN  Bind(summary, "recommendations",
           (IF summary.attention_score < 500
            THEN <<"Considere aumentar elementos que atraiam atenção visual">> ELSE <<>>)
           \o (IF ~summary.cta_present
               THEN <<"Adicione um Call-to-Action claro e visível">> ELSE <<>>)
           \o (IF summary.faces_detected = 0
               THEN <<"Considere adicionar faces humanas para maior conexão emocional">>
               ELSE <<>>)
           \o (IF summary.emotional_impact = "negative"
               THEN <<"Ajuste elementos visuais para transmitir emoções mais positivas">>
               ELSE <<>>))

\* 8. summary, recommendations and the returned dict
HSummary ==
  /\ At(Handler, "summary")
  /\ results' = [objects |-> loc.objects,
                 text |-> loc.ocr_result,
                 colors |-> loc.color_result,
                 caption |-> loc.caption_result,
                 emotions |-> loc.emotion_result,
                 attention |-> loc.attention_dist,
                 cta |-> loc.cta_result,
                 summary |-> Summary(loc)]
  /\ status' = "returned"
  /\ UNCHANGED <<procVars, raises, input_image, entry, pc, loc, trace, threads, pure>>

\* the fields the response models declare with Field(...), i.e. required
\* (src/schemas.py)
RequiredFields ==
  [text |-> {"full_text", "segments", "total_segments", "method_used"},
   colors |-> {"dominant_colors", "average_contrast", "emotion_palette", "color_count"},
   caption |-> {"caption", "method", "confidence"},
   emotions |-> {"faces_detected", "emotions", "scene_emotion", "average_confidence",
                 "method"},
   attention |-> {"attention_score", "focus_center", "rule_of_thirds_alignment",
                  "primary_focus_zone"},
   cta |-> {"cta_present", "cta_count", "cta_elements", "effectiveness_score",
            "recommendations"}]

\* the dict validates against NeuromarketingReportResponse
ConformsToReport(r) ==
  /\ {"objects", "summary"} \cup DOMAIN RequiredFields \subseteq DOMAIN r
  /\ \A section \in DOMAIN RequiredFields :
        RequiredFields[section] \subseteq DOMAIN r[section]

\* the framework validates what the handler returned against response_model
\* (main.py 709), after the handler and outside its try block
HValidate ==
  /\ entry = Handler
  /\ status = "returned"
  /\ status' = IF ConformsToReport(results) THEN "http_200" ELSE "http_500"
  /\ UNCHANGED <<procVars, raises, input_image, entry, pc, loc, results, trace,
                 threads, pure>>

Next ==
  \/ OrchDetect \/ OrchOcr \/ OrchColors \/ OrchEmotion \/ OrchGaze \/ OrchPose
  \/ OrchContraste \/ OrchDepth \/ OrchSymmetry \/ OrchPlano \/ OrchLighting
  \/ OrchSimbolos \/ OrchAttention \/ OrchTexture \/ OrchScene \/ OrchCta
  \/ OrchNarrative \/ OrchReturn
  \/ HDetect \/ HOcr \/ HColors \/ HCaption \/ HEmotion \/ HAttention \/ HCta
  \/ HSummary \/ HValidate

Spec == Init /\ [][Next]_vars
(***************************************************************************)
(* load_model() called from several threads at once (src/app.py 35-40).    *)
(* Each thread runs  if model_sample_model is None:                        *)
(*                       model_sample_model = YOLO(...)                    *)
(*                   return model_sample_model                             *)
(* and the interpreter may switch threads between any two of: the test,    *)
(* the construction, the store to the global, the load for the return.     *)
(***************************************************************************)
NumThreads == 3

ThreadIds == 1..NumThreads

InitLoad ==
  /\ model_sample_model = 0
  /\ constructed = 0
  /\ global_writes = 0
  /\ hash_seed = 1
  /\ missing = {}
  /\ raises = {}
  /\ input_image = ImgPlain
  /\ entry = "load_model"
  /\ pc = 1
  /\ status = "running"
  /\ loc = <<>>
  /\ results = <<>>
  /\ trace = <<>>
  /\ threads = [t \in ThreadIds |-> [pc |-> "idle", built |-> 0, ret |-> 0]]
  /\ pure = <<>>

loadFrame == <<hash_seed, missing, runVars, pure>>

\* detect_sample_model line 169: model = load_model()
LoadCall(t) ==
  /\ threads[t].pc = "idle"
  /\ threads' = [threads EXCEPT ![t].pc = "test"]
  /\ UNCHANGED <<model_sample_model, constructed, global_writes, loadFrame>>

\* if model_sample_model is None:
LoadTest(t) ==
  /\ threads[t].pc = "test"
  /\ threads' = [threads EXCEPT ![t].pc = IF model_sample_model = 0 THEN "construct"
                                          ELSE "return"]
  /\ UNCHANGED <<model_sample_model, constructed, global_writes, loadFrame>>

\* YOLO(settings.MODEL_PATH)
LoadConstruct(t) ==
  /\ threads[t].pc = "construct"
  /\ constructed' = constructed + 1
  /\ threads' = [threads EXCEPT ![t].pc = "store", ![t].built = constructed + 1]
  /\ UNCHANGED <<model_sample_model, global_writes, loadFrame>>

\* model_sample_model = <the object just built>
LoadStore(t) ==
  /\ threads[t].pc = "store"
  /\ model_sample_model' = threads[t].built
  /\ global_writes' = global_writes + 1
  /\ threads' = [threads EXCEPT ![t].pc = "return"]
  /\ UNCHANGED <<constructed, loadFrame>>

\* return model_sample_model
LoadReturn(t) ==
  /\ threads[t].pc = "return"
  /\ threads' = [threads EXCEPT ![t].pc = "done", ![t].ret = model_sample_model]
  /\ UNCHANGED <<model_sample_model, constructed, global_writes, loadFrame>>

NextLoad ==
  \E t \in ThreadIds :
     LoadCall(t) \/ LoadTest(t) \/ LoadConstruct(t) \/ LoadStore(t) \/ LoadReturn(t)

SpecLoad == InitLoad /\ [][NextLoad]_vars

(***************************************************************************)
(* extract_text called on its own: `pure` holds the calls made so far,     *)
(* each with its arguments, the outcome the OCR engine had, and the value  *)
(* the caller got back.                                                    *)
(***************************************************************************)
MaxCalls == 2

\* what happened inside extract_text_easyocr on a call with these arguments
OcrOutcome(image, reader_ok, raised) ==
  IF ~reader_ok THEN "unavailable"
  ELSE IF raised THEN "raised"
  ELSE IF image.text = <<>> THEN "empty"
  ELSE "ok"

InitOcr ==
  /\ model_sample_model = 0
  /\ constructed = 0
  /\ global_writes = 0
  /\ hash_seed = 1
  /\ missing = {}
  /\ raises = {}
  /\ input_image = ImgPlain
  /\ entry = "extract_text"
  /\ pc = 1
  /\ status = "running"
  /\ loc = <<>>
  /\ results = <<>>
  /\ trace = <<>>
  /\ threads = <<>>
  /\ pure = <<>>

CallExtractText ==
  /\ Len(pure) < MaxCalls
  /\ \E image \in Images, reader_ok \in BOOLEAN, raised \in BOOLEAN :
        pure' = Append(pure,
                       [image |-> image, reader_ok |-> reader_ok, raised |-> raised,
                        outcome |-> OcrOutcome(image, reader_ok, raised),
                        value |-> extract_text(image, reader_ok, raised)])
  /\ UNCHANGED <<procVars, runVars, threads>>

NextOcr == CallExtractText

SpecOcr == InitOcr /\ [][NextOcr]_vars

(***************************************************************************)
(* analyze_image_colors called repeatedly on one image, in one process or  *)
(* after a restart of the process.  A new interpreter draws a new str hash *)
(* seed (hash randomisation is on by default).                             *)
(***************************************************************************)
PixelCount == 4

Palette == {Red, Blue, Black, Gray}

InitColors ==
  /\ model_sample_model = 0
  /\ constructed = 0
  /\ global_writes = 0
  /\ hash_seed \in 1..NumSeeds
  /\ missing = {}
  /\ raises = {}
  /\ \E pixels \in [1..PixelCount -> Palette] : input_image = [pixels |-> pixels]
  /\ entry = "analyze_image_colors"
  /\ pc = 1
  /\ status = "running"
  /\ loc = <<>>
  /\ results = <<>>
  /\ trace = <<>>
  /\ threads = <<>>
  /\ pure = <<>>

CallAnalyzeImageColors ==
  /\ Len(pure) < MaxCalls
  /\ pure' = Append(pure, [process |-> hash_seed,
                           value |-> analyze_image_colors(input_image.pixels, FALSE,
                                                          hash_seed)])
  /\ UNCHANGED <<procVars, runVars, threads>>

\* the service is started again: same code, same image, a new hash seed
RestartProcess ==
  /\ \E s \in 1..NumSeeds : hash_seed' = s
  /\ UNCHANGED <<model_sample_model, constructed, global_writes, missing, runVars,
                 threads, pure>>

NextColors == CallAnalyzeImageColors \/ RestartProcess

SpecColors == InitColors /\ [][NextColors]_vars
(***************************************************************************)
(* Properties                                                              *)
(***************************************************************************)

\* the position of the first call of fn in the trace, 0 when it was not called
FirstCall(fn) ==
  IF fn \in Range(trace) THEN CHOOSE i \in DOMAIN trace :
                                /\ trace[i] = fn
                                /\ \A j \in 1..(i - 1) : trace[j] # fn
  ELSE 0

\* the run is over
Finished == status \in {"returned", "raised", "http_400", "http_200", "http_500"}
            /\ ~(entry = Handler /\ status = "returned")

\* C1: in a run of analyze_neuromarketing or of the report handler in which
\* at most one call raises or one capability is missing, the run is not
\* aborted: it neither leaves by an exception nor answers with an HTTP error.
C1_NoSectionFailureAborts ==
  (entry \in {Orch, Handler} /\ Cardinality(missing \cup raises) <= 1)
    => status \notin {"raised", "http_400", "http_500"}

\* the names of the sections of the orchestrator's report
SectionNames ==
  {"objetos", "numero_de_pessoas", "texto_em_imagem", "cores_dominantes",
   "emocao_das_cores", "expressao_emocional", "direcao_olhar", "postura_corporea",
   "sensacao_de_movimento", "contraste_local", "profundidade_de_campo",
   "simetria_visual", "tipo_de_plano", "iluminacao_emocional", "simbolos_sociais",
   "area_de_atencao_visual", "textura_sensorial", "natureza_vs_tecnologia",
   "gatilho_escassez_visual", "textos_e_tipografia", "efeito_surpresa_ou_ironia",
   "historia_implicita"}

\* C2: a report returned by analyze_neuromarketing has all the section names,
\* and each section an analyzer fills has the fields that analyzer gives on
\* the same image when every capability is present and nothing raises.
C2_FixedShape ==
  (entry = Orch /\ status = "returned") =>
    /\ DOMAIN results = SectionNames
    /\ DOMAIN results.texto_em_imagem = DOMAIN extract_text(input_image, TRUE, FALSE)
    /\ DOMAIN results.cores_dominantes =
         DOMAIN analyze_image_colors(input_image.pixels, FALSE, hash_seed)
    /\ DOMAIN results.expressao_emocional.detalhes =
         DOMAIN detect_emotions(input_image, TRUE, "none", hash_seed)
    /\ DOMAIN results.direcao_olhar = DOMAIN estimate_gaze_direction(input_image, TRUE, FALSE)
    /\ DOMAIN results.postura_corporea =
         DOMAIN analyze_body_language(input_image, TRUE, FALSE)
    /\ DOMAIN results.profundidade_de_campo = DOMAIN analyze_depth_of_field(input_image, FALSE)
    /\ DOMAIN results.simetria_visual = DOMAIN analyze_symmetry(input_image, FALSE)
    /\ DOMAIN results.iluminacao_emocional = DOMAIN analyze_lighting(input_image, FALSE)
    /\ DOMAIN results.textura_sensorial = DOMAIN analyze_texture(input_image, TRUE, FALSE)
    /\ DOMAIN results.natureza_vs_tecnologia = DOMAIN classify_scene(input_image, FALSE)

\* C3: two calls of extract_text whose outcomes are two different ones of
\* "engine not installed", "ran and found no text" and "the OCR call raised"
\* return different values.
C3_OutcomesDistinguishable ==
  \A i, j \in DOMAIN pure :
    ( /\ entry = "extract_text"
      /\ pure[i].outcome \in {"unavailable", "empty", "raised"}
      /\ pure[j].outcome \in {"unavailable", "empty", "raised"}
      /\ pure[i].outcome # pure[j].outcome )
    => pure[i].value # pure[j].value

\* the service functions behind the engines and collaborators of the report
EngineCalls ==
  {"detect_sample_model", "extract_text", "analyze_image_colors", "detect_emotions",
   "estimate_gaze_direction", "analyze_body_language", "generate_caption",
   "classify_scene", "calculate_saliency_map", "analyze_symmetry", "analyze_texture",
   "analyze_depth_of_field", "analyze_lighting", "detect_cta_elements",
   "analyze_narrative"}

\* C4: when analyze_neuromarketing has returned, each engine and collaborator,
\* the caption generator and the saliency-map computation included, was
\* called exactly once.
C4_EachEngineExactlyOnce ==
  (entry = Orch /\ status = "returned") =>
    \A fn \in EngineCalls : Count(trace, fn) = 1
\* fn was called, and only after every one of `upstream` was called
CalledAfter(fn, upstream) ==
  \A up \in upstream : 0 < FirstCall(up) /\ FirstCall(up) < FirstCall(fn)

\* C5: in analyze_neuromarketing the CTA detection is called after the OCR
\* call and gets the segments that call returned; the narrative analysis is
\* called after object detection, OCR, color analysis and emotion detection
\* and gets exactly what those calls returned in this run.
C5_DependentsGetUpstreamResults ==
  entry = Orch =>
    /\ "detect_cta_elements" \in Range(trace) =>
         /\ CalledAfter("detect_cta_elements", {"extract_text"})
         /\ loc.cta_args.text_segments =
              extract_text(input_image, "easyocr" \notin missing,
                           "readtext" \in raises).segments
         /\ loc.cta_args.text_segments = results.texto_em_imagem.segments
    /\ "analyze_narrative" \in Range(trace) =>
         /\ CalledAfter("analyze_narrative",
                        {"detect_sample_model", "extract_text", "analyze_image_colors",
                         "detect_emotions"})
         /\ loc.narrative_args =
              [objects |-> results.objetos,
               emotions |-> results.expressao_emocional.detalhes,
               text |-> results.texto_em_imagem,
               colors |-> results.cores_dominantes]
         /\ loc.narrative_args.emotions =
              detect_emotions(input_image, "deepface" \notin missing,
                              DeepFaceException, hash_seed)
         /\ loc.narrative_args.colors =
              analyze_image_colors(input_image.pixels, "colors" \in raises, hash_seed)

\* C5 happens: a run on the advertisement has returned, its OCR found text,
\* and both dependents were called on what their upstreams found.
C5_Witness ==
  /\ entry = Orch
  /\ status = "returned"
  /\ input_image = ImgAd
  /\ Len(loc.cta_args.text_segments) = 2
  /\ loc.narrative_args.emotions.faces_detected = 1
  /\ results.gatilho_escassez_visual.ctas_detectados

\* the OCR section of this run is unavailable or failed
OcrDown == "easyocr" \in missing \/ "readtext" \in raises

\* the emotion section of this run is unavailable or failed
EmotionDown == "deepface" \in missing \/ DeepFaceException # "none"

\* the fields analyze_narrative returns from its try block
NarrativeFields ==
  {"implicit_story", "story_meaning", "narrative_elements", "scarcity_trigger_detected",
   "scarcity_elements", "incongruence_detected", "incongruence_explanation",
   "surprise_level", "surprise_score", "narrative_coherence", "explicacao"}

\* C6: in analyze_neuromarketing, when OCR is unavailable or failed the CTA
\* detection gets an empty segment list and returns no element; when emotion
\* detection is unavailable or failed the narrative analysis gives what it
\* gives for the emotion "neutral", with every field and a story that is
\* not "indefinido".
C6_DependentsGetDefaults ==
  entry = Orch =>
    /\ (OcrDown /\ "cta_args" \in DOMAIN loc) =>
         /\ loc.cta_args.text_segments = <<>>
         /\ results.gatilho_escassez_visual.elementos_cta = <<>>
         /\ ~results.gatilho_escassez_visual.ctas_detectados
    /\ (EmotionDown /\ "narrative_result" \in DOMAIN loc) =>
         /\ loc.narrative_result =
              analyze_narrative(loc.objects_list, [scene_emotion |-> "neutral"],
                                loc.ocr_result, loc.color_result)
         /\ DOMAIN loc.narrative_result = NarrativeFields
         /\ loc.narrative_result.implicit_story # "indefinido"
         /\ results.historia_implicita.narrativa # "indefinido"

\* C6 happens: a run on the advertisement (a person, two text segments) has
\* returned although neither its OCR nor its emotion detection was there.
C6_Witness ==
  /\ entry = Orch
  /\ status = "returned"
  /\ input_image = ImgAd
  /\ missing = {"deepface", "easyocr"}
  /\ "scene_emotion" \notin DOMAIN loc.emotion_result
  /\ loc.cta_args.text_segments = <<>>
  /\ loc.narrative_result.implicit_story = "urgencia_acao"

\* the recommendation the handler adds when summary["faces_detected"] == 0
FacesRecommendation == "Considere adicionar faces humanas para maior conexão emocional"

\* C7: in a report of the handler, when the emotion collaborator was
\* unavailable or failed the summary carries no faces_detected = 0 and no
\* recommendation drawn from it.
C7_SummaryOnlyFromSuccessfulSections ==
  (entry = Handler /\ "summary" \in DOMAIN results
     /\ ("deepface" \in missing \/ DeepFaceException = "other")) =>
    /\ Get(results.summary, "faces_detected", -1) # 0
    /\ FacesRecommendation \notin Range(results.summary.recommendations)

\* C8: whatever the outcome of detect_emotions, its result has
\* faces_detected, scene_emotion and average_confidence, and the handler's
\* report built from it passes the validation of the response model.
C8_EmotionResultConforms ==
  /\ "emotion_result" \in DOMAIN loc =>
       {"faces_detected", "scene_emotion", "average_confidence"}
         \subseteq DOMAIN loc.emotion_result
  /\ (entry = Handler /\ Cardinality(missing \cup raises \cup {"deepface"}) <= 1
        /\ Finished) => status = "http_200"

\* C9: whatever the interleaving of the concurrent load_model calls, at most
\* one YOLO object is built, the global is stored at most once, and all the
\* calls that have returned returned the same object.
C9_HandleBuiltOnce ==
  entry = "load_model" =>
    /\ constructed <= 1
    /\ global_writes <= 1
    /\ \A t, u \in DOMAIN threads :
         (threads[t].pc = "done" /\ threads[u].pc = "done")
           => threads[t].ret = threads[u].ret

\* C10: two calls of analyze_image_colors on the same image return the same
\* value, in the same process or in two processes.
C10_SameImageSameOutput ==
  entry = "analyze_image_colors" =>
    \A i, j \in DOMAIN pure : pure[i].value = pure[j].value

\* ---------------------------------------------------------------------------
\* The colour engine on images made of colour regions.
\* The engine resizes every image to 150x150 and counts quantized pixels; an
\* image is modelled by its pixel list, here up to three regions of one colour
\* each, the list being the regions one after the other.
\* ---------------------------------------------------------------------------

Navy == <<40, 40, 200>>

RegionColors == {Red, Blue, Navy, Gray}

\* numbers of pixels of the modelled images
RegionTotals == {6, 10}

\* number of colours asked of extract_dominant_colors
MaxColors == 3

RegionImage(c1, c2, c3, i, j, total) ==
  [k \in 1..total |-> IF k <= i THEN c1 ELSE IF k <= j THEN c2 ELSE c3]

InitPalette ==
  /\ model_sample_model = 0
  /\ constructed = 0
  /\ global_writes = 0
  /\ hash_seed \in 1..NumSeeds
  /\ missing = {}
  /\ raises \in SUBSET {"colors"}
  /\ \E total \in RegionTotals, c1 \in RegionColors, c2 \in RegionColors,
        c3 \in RegionColors :
       \E j \in 0..total :
         \E i \in 0..j :
           input_image = [pixels |-> RegionImage(c1, c2, c3, i, j, total)]
  /\ entry = "colors"
  /\ pc = 1
  /\ status = "running"
  /\ loc = <<>>
  /\ results = <<>>
  /\ trace = <<>>
  /\ threads = <<>>
  /\ pure = <<>>

CallExtractDominantColors ==
  /\ pure = <<>>
  /\ \E n \in 1..MaxColors :
       pure' = <<[fn |-> "extract_dominant_colors",
                  n_colors |-> n,
                  value |-> extract_dominant_colors(input_image.pixels, n,
                                                    "colors" \in raises)]>>
  /\ UNCHANGED <<procVars, runVars, threads>>

CallAnalyzeRegions ==
  /\ pure = <<>>
  /\ pure' = <<[fn |-> "analyze_image_colors",
                value |-> analyze_image_colors(input_image.pixels, "colors" \in raises,
                                               hash_seed)]>>
  /\ UNCHANGED <<procVars, runVars, threads>>

NextPalette == CallExtractDominantColors \/ CallAnalyzeRegions

SpecPalette == InitPalette /\ [][NextPalette]_vars

PaletteCall(fn) == entry = "colors" /\ pure # <<>> /\ pure[1].fn = fn

Percentages(colors) == [k \in DOMAIN colors |-> colors[k].percentage]

\* C11: the percentages returned by extract_dominant_colors, as returned
\* (rounded to two decimals, here in hundredths of a percent), each lie in
\* [0,100] and add up to at most 100.
C11_PercentagesSumAtMost100 ==
  PaletteCall("extract_dominant_colors") =>
    /\ \A k \in DOMAIN pure[1].value : pure[1].value[k].percentage \in 0..10000
    /\ SumSeq(Percentages(pure[1].value)) <= 10000

\* ---------------------------------------------------------------------------
\* calculate_contrast on pairs of colours
\* ---------------------------------------------------------------------------

ContrastChannels == {0, 10, 11, 128, 255}

ContrastColors == [1..3 -> ContrastChannels]

\* input_image carries the two colours; pure maps each call made to its value
InitContrast ==
  /\ model_sample_model = 0
  /\ constructed = 0
  /\ global_writes = 0
  /\ hash_seed = 1
  /\ missing = {}
  /\ raises = {}
  /\ \E a \in ContrastColors, b \in ContrastColors :
       input_image = [color1 |-> a, color2 |-> b]
  /\ entry = "calculate_contrast"
  /\ pc = 1
  /\ status = "running"
  /\ loc = <<>>
  /\ results = <<>>
  /\ trace = <<>>
  /\ threads = <<>>
  /\ pure = <<>>

CallContrast ==
  /\ "ab" \notin DOMAIN pure
  /\ pure' = Bind(pure, "ab", calculate_contrast(input_image.color1, input_image.color2))
  /\ UNCHANGED <<procVars, runVars, threads>>

CallContrastSwapped ==
  /\ "ba" \notin DOMAIN pure
  /\ pure' = Bind(pure, "ba", calculate_contrast(input_image.color2, input_image.color1))
  /\ UNCHANGED <<procVars, runVars, threads>>

CallContrastSame ==
  /\ "aa" \notin DOMAIN pure
  /\ pure' = Bind(pure, "aa", calculate_contrast(input_image.color1, input_image.color1))
  /\ UNCHANGED <<procVars, runVars, threads>>

NextContrast == CallContrast \/ CallContrastSwapped \/ CallContrastSame

SpecContrast == InitContrast /\ [][NextContrast]_vars

\* C12: calculate_contrast(a,b) equals calculate_contrast(b,a), every result
\* lies in [1,21] (hundredths: 100..2100), and calculate_contrast(c,c) is 1.
C12_ContrastSymmetricBounded ==
  entry = "calculate_contrast" =>
    /\ {"ab", "ba"} \subseteq DOMAIN pure => pure["ab"] = pure["ba"]
    /\ \A k \in DOMAIN pure : pure[k] \in 100..2100
    /\ "aa" \in DOMAIN pure => pure["aa"] = 100

\* two different colours compared both ways, one of the pairs being
\* black on white at the top of the range
C12_Witness ==
  /\ entry = "calculate_contrast"
  /\ DOMAIN pure = {"ab", "ba", "aa"}
  /\ input_image.color1 = [k \in 1..3 |-> 0]
  /\ input_image.color2 = [k \in 1..3 |-> 255]
  /\ pure["ab"] = 2100

\* ---------------------------------------------------------------------------
\* _classify_color_emotion on (hue, saturation, value) triples.
\* A triple is the record rgb_to_hsv produces: hue = hn/hd sixths of a turn
\* (hd = 60 makes hn the hue in degrees), saturation = sn/sd, value = vn/255.
\* ---------------------------------------------------------------------------

HueDegrees ==
  {0, 29, 30, 45, 59, 60, 89, 90, 119, 120, 149, 150, 179, 180, 209, 210,
   239, 240, 269, 270, 299, 300, 329, 330, 359}

\* saturations in hundredths, around the 0.3 threshold
SaturationLevels == {0, 29, 30, 100}

\* values in 255ths: 76/255 < 0.3 <= 77/255 and 204/255 <= 0.8 < 205/255
ValueLevels == {0, 76, 77, 204, 205, 255}

InitEmotion ==
  /\ model_sample_model = 0
  /\ constructed = 0
  /\ global_writes = 0
  /\ hash_seed = 1
  /\ missing = {}
  /\ raises = {}
  /\ \E deg \in HueDegrees, s \in SaturationLevels, v \in ValueLevels :
       input_image = [hsv |-> [hn |-> deg, hd |-> 60, sn |-> s, sd |-> 100, vn |-> v]]
  /\ entry = "_classify_color_emotion"
  /\ pc = 1
  /\ status = "running"
  /\ loc = <<>>
  /\ results = <<>>
  /\ trace = <<>>
  /\ threads = <<>>
  /\ pure = <<>>

CallClassifyColorEmotion ==
  /\ pure = <<>>
  /\ pure' = <<[fn |-> "_classify_color_emotion",
                value |-> classify_color_emotion(input_image.hsv)]>>
  /\ UNCHANGED <<procVars, runVars, threads>>

NextEmotion == CallClassifyColorEmotion

SpecEmotion == InitEmotion /\ [][NextEmotion]_vars

EmotionTags ==
  {"dark", "light", "neutral", "warm-energetic", "cheerful", "fresh", "calm",
   "trustworthy", "creative"}

HueTags == <<"warm-energetic", "cheerful", "fresh", "calm", "trustworthy", "creative">>

\* the tag of the first matching rule, the hue rule being given by Band
FirstMatch(hsv, Band(_)) ==
  IF hsv.vn * 10 < 255 * 3 THEN "dark"
  ELSE IF hsv.vn * 10 > 255 * 8 /\ hsv.sn * 10 < hsv.sd * 3 THEN "light"
  ELSE IF hsv.sn * 10 < hsv.sd * 3 THEN "neutral"
  ELSE Band(hsv.hn)

\* 60-degree bands centred on 0, 60, ..., 300 degrees: [330,30), [30,90), ...
CentredBand(deg) == HueTags[((deg + 30) % 360) \div 60 + 1]

\* 60-degree bands starting at 0 degrees: [0,60), [60,120), ..., with hue at
\* or above 330 mapped to the first tag
BandFromZero(deg) == IF deg >= 330 THEN HueTags[1] ELSE HueTags[deg \div 60 + 1]

EmotionCalled == entry = "_classify_color_emotion" /\ pure # <<>>

\* C13 (as amended): the tag is the one of the first matching rule: value<0.3
\* dark; value>0.8 and saturation<0.3 light; saturation<0.3 neutral; otherwise
\* the 60-degree hue band centred on 0, 60, ..., 300 degrees, i.e. [330,30)
\* warm-energetic, [30,90) cheerful, [90,150) fresh, [150,210) calm, [210,270)
\* trustworthy, [270,330) creative.  Exactly one tag is returned.
C13_FirstMatchCentredBands ==
  EmotionCalled =>
    /\ pure[1].value \in EmotionTags
    /\ pure[1].value = FirstMatch(input_image.hsv, CentredBand)

\* a saturated, bright colour of hue 45 degrees is tagged cheerful
C13_Witness ==
  /\ EmotionCalled
  /\ input_image.hsv.hn = 45
  /\ input_image.hsv.sn = 100
  /\ input_image.hsv.vn = 255
  /\ pure[1].value = "cheerful"

\* C13 (as stated): as above, but with the hue bands starting at 0 degrees
\* and wrapping at 330 degrees.
C13_BandsStartingAtZero ==
  EmotionCalled =>
    /\ pure[1].value \in EmotionTags
    /\ pure[1].value = FirstMatch(input_image.hsv, BandFromZero)

\* the returned colours whose percentage exceeds 10
Over10(colors) == {k \in DOMAIN colors : colors[k].percentage > 1000}

\* how many of the returned colours above 10% carry the tag
TagCount(colors, tag) ==
  Cardinality({k \in Over10(colors) : colors[k].emotion_tag = tag})

\* C14: emotion_palette is a tag that occurs most often among the returned
\* dominant colours whose percentage exceeds 10, and 'neutral' when no
\* returned colour exceeds 10 or no colour is returned.
C14_PaletteIsMostFrequentTag ==
  PaletteCall("analyze_image_colors") =>
    LET colors == pure[1].value.dominant_colors
        palette == pure[1].value.emotion_palette
    IN  IF Over10(colors) = {} THEN palette = "neutral"
        ELSE /\ TagCount(colors, palette) > 0
             /\ \A k \in Over10(colors) :
                  TagCount(colors, colors[k].emotion_tag) <= TagCount(colors, palette)

\* three colours returned, two of them at exactly 10% and tagged trustworthy:
\* only the red one counts and the palette is its tag
C14_Witness ==
  /\ PaletteCall("analyze_image_colors")
  /\ Len(pure[1].value.dominant_colors) = 3
  /\ Cardinality(Over10(pure[1].value.dominant_colors)) = 1
  /\ TagCount(pure[1].value.dominant_colors, "warm-energetic") = 1
  /\ \E k \in DOMAIN pure[1].value.dominant_colors :
       /\ pure[1].value.dominant_colors[k].percentage = 1000
       /\ pure[1].value.dominant_colors[k].emotion_tag = "trustworthy"
  /\ pure[1].value.emotion_palette = "warm-energetic"

\* the red pixels are 40% of the image and every other colour has fewer
RedDominant40(pixels) ==
  /\ 10 * Count(pixels, Red) = 4 * Len(pixels)
  /\ \A c \in Range(pixels) \ {Red} : Count(pixels, c) < Count(pixels, Red)

\* C15: when one warm-red region is the dominant one and covers 40% of the
\* pixels, a dominant-colour entry of 40% tagged warm-energetic is returned
\* and emotion_palette is warm-energetic, whatever the other 60%.
C15_RedRegionDecidesPalette ==
  (/\ PaletteCall("analyze_image_colors")
   /\ raises = {}
   /\ RedDominant40(input_image.pixels)) =>
    /\ \E k \in DOMAIN pure[1].value.dominant_colors :
         LET c == pure[1].value.dominant_colors[k]
         IN  /\ c.rgb = Quantize(Red)
             /\ c.percentage = 4000
             /\ c.emotion_tag = "warm-energetic"
    /\ pure[1].value.emotion_palette = "warm-energetic"

\* ---------------------------------------------------------------------------
\* analyze_attention_distribution on saliency maps.
\* A map is a grid of uint8 values of up to GridHeight x GridWidth cells; the
\* spectral-residual module may be missing, and the map computation, its
\* fallback and the distribution analysis may each raise.
\* ---------------------------------------------------------------------------

GridHeight == 2

GridWidth == 3

SaliencyLevels == {0, 255}

Grids(levels) ==
  UNION {[1..h -> [1..w -> levels]] : h \in 1..GridHeight, w \in 1..GridWidth}

InitAttention ==
  /\ model_sample_model = 0
  /\ constructed = 0
  /\ global_writes = 0
  /\ hash_seed = 1
  /\ missing \in SUBSET {"cv2_saliency"}
  /\ raises \in SUBSET {"saliency_primary", "saliency_fallback", "attention_dist"}
  /\ \E grid \in Grids(SaliencyLevels) :
       input_image = [saliency |-> [grid |-> grid, peaks |-> <<>>],
                      saliency_fallback |-> [grid |-> grid, peaks |-> <<>>]]
  /\ entry = "analyze_attention_distribution"
  /\ pc = 1
  /\ status = "running"
  /\ loc = <<>>
  /\ results = <<>>
  /\ trace = <<>>
  /\ threads = <<>>
  /\ pure = <<>>

CallAnalyzeAttentionDistribution ==
  /\ pure = <<>>
  /\ pure' = <<[fn |-> "analyze_attention_distribution",
                saliency_map |-> SaliencyMap,
                value |-> analyze_attention_distribution(SaliencyMap,
                                                         "attention_dist" \in raises)]>>
  /\ UNCHANGED <<procVars, runVars, threads>>

NextAttention == CallAnalyzeAttentionDistribution

SpecAttention == InitAttention /\ [][NextAttention]_vars

AttentionCalled == entry = "analyze_attention_distribution" /\ pure # <<>>

\* the map is missing, all zero, or the analysis failed
NoAttention ==
  \/ pure[1].saliency_map = <<>>
  \/ "attention_dist" \in raises
  \/ \A y \in DOMAIN pure[1].saliency_map[1].grid :
       \A x \in DOMAIN pure[1].saliency_map[1].grid[y] :
         pure[1].saliency_map[1].grid[y][x] = 0

\* the result has the values of the defined empty result
IsEmptyResult(r) ==
  /\ r.attention_score = 0
  /\ r.focus_center = [x |-> 0, y |-> 0, normalized_x |-> 0, normalized_y |-> 0]
  /\ r.rule_of_thirds_alignment = "unknown"
  /\ r.primary_focus_zone = "unknown"

\* C16: analyze_attention_distribution returns a result for every image; the
\* normalized focus-center coordinates lie in [0,1] (thousandths: 0..1000);
\* and when the saliency map is all zero, missing, or the computation fails,
\* the result is the empty result (score 0, center 0/0, alignment 'unknown').
C16_CentroidInUnitSquareOrEmpty ==
  AttentionCalled =>
    /\ DOMAIN pure[1].value = {"attention_score", "focus_center",
                               "rule_of_thirds_alignment", "primary_focus_zone"}
    /\ pure[1].value.focus_center.normalized_x \in 0..1000
    /\ pure[1].value.focus_center.normalized_y \in 0..1000
    /\ NoAttention => IsEmptyResult(pure[1].value)

\* a map that was computed, by the fallback, and is all zero: the analysis
\* itself did not fail and returns the empty result
C16_Witness ==
  /\ AttentionCalled
  /\ "cv2_saliency" \in missing
  /\ raises = {}
  /\ pure[1].saliency_map # <<>>
  /\ Len(pure[1].saliency_map[1].grid) = GridHeight
  /\ NoAttention
  /\ IsEmptyResult(pure[1].value)

\* the exact normalized centroid is within 0.1 of 1/3 or of 2/3; the
\* coordinate is sum / (total * extent)
WithinTenthOfAThird(sum, total, extent) ==
  \/ 10 * Abs(3 * sum - total * extent) < 3 * total * extent
  \/ 10 * Abs(3 * sum - 2 * total * extent) < 3 * total * extent

\* C17: for a non-empty attention result, rule_of_thirds_alignment is
\* 'aligned' exactly when the normalized centroid is within 0.1 of 1/3 or of
\* 2/3 on the x axis or on the y axis, and 'center' otherwise; 'unknown' comes
\* only with the empty result.
C17_AlignedIffNearAThird ==
  AttentionCalled =>
    IF NoAttention
    THEN IsEmptyResult(pure[1].value)
    ELSE LET grid == pure[1].saliency_map[1].grid
             total == GridSum(grid, "all")
             near == \/ WithinTenthOfAThird(GridSum(grid, "x"), total,
                                            Len(grid[1]))
                     \/ WithinTenthOfAThird(GridSum(grid, "y"), total,
                                            Len(grid))
         IN  pure[1].value.rule_of_thirds_alignment
               = IF near THEN "aligned" ELSE "center"

\* the centroid sits at x = 1/3 of the width and at y = 0, far from both
\* thirds: aligned on the x axis alone
C17_Witness ==
  /\ AttentionCalled
  /\ ~NoAttention
  /\ pure[1].saliency_map[1].grid = << <<0, 255, 0>> >>
  /\ pure[1].value.focus_center.normalized_x = 333
  /\ pure[1].value.focus_center.normalized_y = 0
  /\ pure[1].value.rule_of_thirds_alignment = "aligned"

\* ---------------------------------------------------------------------------
\* analyze_depth_of_field on the Laplacian variances of the five regions
\* ---------------------------------------------------------------------------

\* variances in thousandths, around the thresholds 50 and 100 and apart by
\* more than 100 and 200
SharpnessLevels == {0, 50010, 100004, 100010, 250000, 320000}

InitDepth ==
  /\ model_sample_model = 0
  /\ constructed = 0
  /\ global_writes = 0
  /\ hash_seed = 1
  /\ missing = {}
  /\ raises \in SUBSET {"depth"}
  /\ \E sharpness \in [1..5 -> SharpnessLevels] : input_image = [sharpness |-> sharpness]
  /\ entry = "analyze_depth_of_field"
  /\ pc = 1
  /\ status = "running"
  /\ loc = <<>>
  /\ results = <<>>
  /\ trace = <<>>
  /\ threads = <<>>
  /\ pure = <<>>

CallAnalyzeDepthOfField ==
  /\ pure = <<>>
  /\ pure' = <<[fn |-> "analyze_depth_of_field",
                value |-> analyze_depth_of_field(input_image, "depth" \in raises)]>>
  /\ UNCHANGED <<procVars, runVars, threads>>

NextDepth == CallAnalyzeDepthOfField

SpecDepth == InitDepth /\ [][NextDepth]_vars

\* C20: most_focused_region is a region of maximal variance and
\* least_focused_region one of minimal variance; depth_of_field_type is rasa
\* when max minus min is above 200, moderada above 100, profunda otherwise;
\* overall_focus_level follows the mean of the five variances (alto above 100,
\* medio above 50, baixo otherwise); and when every region is tiered alto the
\* overall tier is alto.
C20_DepthOfFieldTiers ==
  (entry = "analyze_depth_of_field" /\ pure # <<>> /\ raises = {}) =>
    LET r == pure[1].value
        q == r.quadrant_analysis
        maxv == CHOOSE v \in {q[i].variance : i \in 1..5} : \A j \in 1..5 : q[j].variance <= v
        minv == CHOOSE v \in {q[i].variance : i \in 1..5} : \A j \in 1..5 : q[j].variance >= v
        total == SumSeq([i \in 1..5 |-> q[i].variance])
    IN  /\ \E i \in 1..5 : q[i].name = r.most_focused_region /\ q[i].variance = maxv
        /\ \E i \in 1..5 : q[i].name = r.least_focused_region /\ q[i].variance = minv
        /\ r.depth_of_field_type = IF maxv - minv > 20000 THEN "rasa"
                                   ELSE IF maxv - minv > 10000 THEN "moderada"
                                   ELSE "profunda"
        /\ r.overall_focus_level = IF total > 5 * 10000 THEN "alto"
                                   ELSE IF total > 5 * 5000 THEN "medio"
                                   ELSE "baixo"
        /\ (\A i \in 1..5 : q[i].focus_level = "alto") => r.overall_focus_level = "alto"

\* ---------------------------------------------------------------------------
\* analyze_symmetry on pairs of correlations
\* ---------------------------------------------------------------------------

\* correlations in thousandths, around the tier thresholds and 0.1 apart
CorrLevels == {-1000, 0, 400, 500, 600, 700, 701, 800, 900, 1000}

CorrPairs == {[h |-> h, v |-> v] : h \in CorrLevels, v \in CorrLevels}

InitSymmetry ==
  /\ model_sample_model = 0
  /\ constructed = 0
  /\ global_writes = 0
  /\ hash_seed = 1
  /\ missing = {}
  /\ raises \in SUBSET {"symmetry"}
  /\ \E c \in CorrPairs : input_image = [symmetry |-> c]
  /\ entry = "analyze_symmetry"
  /\ pc = 1
  /\ status = "running"
  /\ loc = <<>>
  /\ results = <<>>
  /\ trace = <<>>
  /\ threads = <<>>
  /\ pure = <<>>

CallAnalyzeSymmetry ==
  /\ pure = <<>>
  /\ pure' = <<[fn |-> "analyze_symmetry",
                value |-> analyze_symmetry(input_image, "symmetry" \in raises)]>>
  /\ UNCHANGED <<procVars, runVars, threads>>

NextSymmetry == CallAnalyzeSymmetry

SpecSymmetry == InitSymmetry /\ [][NextSymmetry]_vars

\* the tiers from lowest to highest
TierRank(level) ==
  CASE level = "baixo" -> 1
    [] level = "moderado" -> 2
    [] level = "alto" -> 3
    [] level = "muito_alto" -> 4

SymmetryAnalyzed == entry = "analyze_symmetry" /\ pure # <<>> /\ raises = {}

\* C19: symmetry_score is the mean of h and v (rounded to three decimals);
\* symmetry_level is muito_alto when the mean is above 0.85, alto above 0.70,
\* moderado above 0.50, baixo otherwise, and a higher mean never gives a
\* lower tier; the dominant type is horizontal when h exceeds v by more than
\* 0.1, vertical when v exceeds h by more than 0.1, and ambas otherwise.
C19_SymmetryTiers ==
  SymmetryAnalyzed =>
    LET r == pure[1].value
        h == input_image.symmetry.h
        v == input_image.symmetry.v
    IN  /\ Abs(2 * r.symmetry_score - (h + v)) <= 1
        /\ r.symmetry_level = IF h + v > 2 * 850 THEN "muito_alto"
                              ELSE IF h + v > 2 * 700 THEN "alto"
                              ELSE IF h + v > 2 * 500 THEN "moderado"
                              ELSE "baixo"
        /\ \A c \in CorrPairs :
             c.h + c.v >= h + v =>
               TierRank(analyze_symmetry([symmetry |-> c], FALSE).symmetry_level)
                 >= TierRank(r.symmetry_level)
        /\ r.dominant_symmetry_type = IF h - v > 100 THEN "horizontal"
                                      ELSE IF v - h > 100 THEN "vertical"
                                      ELSE "ambas"

\* h = 0.9 and v = 0.8: the mean is exactly 0.85 and the difference exactly
\* 0.1, so the tier is alto and the dominant type ambas
C19_Witness ==
  /\ SymmetryAnalyzed
  /\ input_image.symmetry = [h |-> 900, v |-> 800]
  /\ pure[1].value.symmetry_score = 850
  /\ pure[1].value.symmetry_level = "alto"
  /\ pure[1].value.dominant_symmetry_type = "ambas"

\* ---------------------------------------------------------------------------
\* analyze_symmetry on gray images: the halves it compares and their
\* correlation.  A gray image is a list of rows of pixel values.
\* ---------------------------------------------------------------------------

\* gray[:, from:to] and gray[from:to, :], numpy's half-open slices counted
\* from 0
Columns(gray, from, to) == [y \in DOMAIN gray |-> SubSeq(gray[y], from + 1, to)]

Rows(gray, from, to) == SubSeq(gray, from + 1, to)

Reversed(s) == [i \in DOMAIN s |-> s[Len(s) + 1 - i]]

\* cv2.flip(m, 1) mirrors the columns, cv2.flip(m, 0) the rows
cv2_flip(m, flipCode) ==
  IF flipCode = 1 THEN [y \in DOMAIN m |-> Reversed(m[y])] ELSE Reversed(m)

Min(a, b) == IF a <= b THEN a ELSE b

\* the halves when the flipped half is cut to min_width from its far end, which
\* keeps the middle column of an odd width
horizontal_halves_keep_middle(gray) ==
  LET width == Len(gray[1])
      left_half == Columns(gray, 0, width \div 2)
      right_half_flipped == cv2_flip(Columns(gray, width \div 2, width), 1)
      min_width == Min(Len(left_half[1]), Len(right_half_flipped[1]))
  IN  [first |-> Columns(left_half, 0, min_width),
       second |-> Columns(right_half_flipped,
                          Len(right_half_flipped[1]) - min_width,
                          Len(right_half_flipped[1]))]

\* left_half and right_half_flipped as matchTemplate receives them
horizontal_halves(gray) ==
  LET width == Len(gray[1])
      left_half == Columns(gray, 0, width \div 2)
      right_half_flipped == cv2_flip(Columns(gray, width \div 2, width), 1)
      min_width == Min(Len(left_half[1]), Len(right_half_flipped[1]))
  IN  [first |-> Columns(left_half, 0, min_width),
       second |-> Columns(right_half_flipped, 0, min_width)]

\* top_half and bottom_half_flipped as matchTemplate receives them
vertical_halves(gray) ==
  LET height == Len(gray)
      top_half == Rows(gray, 0, height \div 2)
      bottom_half_flipped == cv2_flip(Rows(gray, height \div 2, height), 0)
      min_height == Min(Len(top_half), Len(bottom_half_flipped))
  IN  [first |-> Rows(top_half, 0, min_height),
       second |-> Rows(bottom_half_flipped, 0, min_height)]

\* the pixels of an array, row after row
RECURSIVE Flatten(_)
Flatten(m) == IF m = <<>> THEN <<>> ELSE Head(m) \o Flatten(Tail(m))

\* the largest k in lo..hi with (k - 1/2)^2 <= 10^6 * num2 / den, that is
\* 1000 * sqrt(num2 / den) rounded to the nearest integer
RECURSIVE RoundedRoot(_, _, _, _)
RoundedRoot(lo, hi, num2, den) ==
  IF lo >= hi THEN lo
  ELSE LET mid == (lo + hi + 1) \div 2
       IN  IF (2 * mid - 1) * (2 * mid - 1) * den <= 4000000 * num2
           THEN RoundedRoot(mid, hi, num2, den)
           ELSE RoundedRoot(lo, mid - 1, num2, den)

\* cv2.matchTemplate(image, templ, cv2.TM_CCOEFF_NORMED)[0][0] for two arrays
\* of one size, in thousandths: the correlation of the mean-centred arrays.
\* OpenCV returns 1 when the template has no variance and 0 when only the
\* image has none.
TM_CCOEFF_NORMED(image, templ) ==
  LET I == Flatten(image)
      T == Flatten(templ)
      n == Len(I)
      num == n * SumSeq([k \in DOMAIN I |-> I[k] * T[k]]) - SumSeq(I) * SumSeq(T)
      varI == n * SumSeq([k \in DOMAIN I |-> I[k] * I[k]]) - SumSeq(I) * SumSeq(I)
      varT == n * SumSeq([k \in DOMAIN T |-> T[k] * T[k]]) - SumSeq(T) * SumSeq(T)
  IN  IF varT = 0 THEN 1000
      ELSE IF varI = 0 \/ num = 0 THEN 0
      ELSE IF num > 0 THEN RoundedRoot(0, 1000, num * num, varI * varT)
      ELSE -RoundedRoot(0, 1000, num * num, varI * varT)

\* horizontal_corr and vertical_corr
symmetry_correlations(gray) ==
  [h |-> TM_CCOEFF_NORMED(horizontal_halves(gray).first, horizontal_halves(gray).second),
   v |-> TM_CCOEFF_NORMED(vertical_halves(gray).first, vertical_halves(gray).second)]

GrayHeight == 2

GrayWidth == 4

GrayLevels == {0, 1}

\* gray images of at least 2 x 2 pixels, so that no half is empty
GrayImages ==
  UNION {[1..h -> [1..w -> GrayLevels]] : h \in 2..GrayHeight, w \in 2..GrayWidth}

InitMirror ==
  /\ model_sample_model = 0
  /\ constructed = 0
  /\ global_writes = 0
  /\ hash_seed = 1
  /\ missing = {}
  /\ raises \in SUBSET {"symmetry"}
  /\ \E gray \in GrayImages : input_image = [gray |-> gray]
  /\ entry = "analyze_symmetry(gray)"
  /\ pc = 1
  /\ status = "running"
  /\ loc = <<>>
  /\ results = <<>>
  /\ trace = <<>>
  /\ threads = <<>>
  /\ pure = <<>>

CallAnalyzeSymmetryOfGray ==
  /\ pure = <<>>
  /\ pure' = <<[fn |-> "analyze_symmetry",
                horizontal |-> horizontal_halves(input_image.gray),
                vertical |-> vertical_halves(input_image.gray),
                value |-> analyze_symmetry(
                            [symmetry |-> symmetry_correlations(input_image.gray)],
                            "symmetry" \in raises)]>>
  /\ UNCHANGED <<procVars, runVars, threads>>

NextMirror == CallAnalyzeSymmetryOfGray

SpecMirror == InitMirror /\ [][NextMirror]_vars

GrayAnalyzed == entry = "analyze_symmetry(gray)" /\ pure # <<>> /\ raises = {}

\* every column equals its mirror column
Mirrored(gray) ==
  \A y \in DOMAIN gray :
    \A x \in DOMAIN gray[y] : gray[y][x] = gray[y][Len(gray[y]) + 1 - x]

NonConstant(m) == Cardinality(Range(Flatten(m))) > 1

RedMeans == {0, 9000, 9001, 11000, 11001, 13000, 13001}

BlueMeans == {0, 10000}

\* average and standard deviation of the luminance, in tenths
LuminanceLevels == {300, 1600}

LuminanceSpreads == {0, 450}

InitLighting ==
  /\ model_sample_model = 0
  /\ constructed = 0
  /\ global_writes = 0
  /\ hash_seed = 1
  /\ missing = {}
  /\ raises \in SUBSET {"lighting"}
  /\ \E avg \in LuminanceLevels, std \in LuminanceSpreads, r \in RedMeans, b \in BlueMeans :
       input_image = [light |-> [avg |-> avg, std |-> std, r |-> r, b |-> b]]
  /\ entry = "analyze_lighting"
  /\ pc = 1
  /\ status = "running"
  /\ loc = <<>>
  /\ results = <<>>
  /\ trace = <<>>
  /\ threads = <<>>
  /\ pure = <<>>

CallAnalyzeLighting ==
  /\ pure = <<>>
  /\ pure' = <<[fn |-> "analyze_lighting",
                value |-> analyze_lighting(input_image, "lighting" \in raises)]>>
  /\ UNCHANGED <<procVars, runVars, threads>>

NextLighting == CallAnalyzeLighting

SpecLighting == InitLighting /\ [][NextLighting]_vars

\* C21: color_temperature is 'indefinido' only when the blue mean is zero;
\* with a positive blue mean it follows the red/blue ratio: quente above 1.3,
\* neutra_quente above 1.1, neutra above 0.9, fria otherwise, a ratio of 0
\* (zero red mean) included.
C21_TemperatureFollowsRatio ==
  (entry = "analyze_lighting" /\ pure # <<>> /\ raises = {}) =>
    LET r == input_image.light.r
        b == input_image.light.b
        temp == pure[1].value.color_temperature
    IN  /\ temp = "indefinido" => b = 0
        /\ b > 0 => temp = IF 10 * r > 13 * b THEN "quente"
                           ELSE IF 10 * r > 11 * b THEN "neutra_quente"
                           ELSE IF 10 * r > 9 * b THEN "neutra"
                           ELSE "fria"

\* ---------------------------------------------------------------------------
\* The CTA engine on lists of text segments.
\* The image is 1000 x 500 pixels; a segment is what extract_text_easyocr
\* builds from one OCR result: text, confidence (hundredths) and bbox.
\* ---------------------------------------------------------------------------

CtaImageSize == <<1000, 500>>

CtaTexts ==
  {<<"C","o","m","p","r","e"," ","A","g","o","r","a">>, <<"B","U","Y">>,
   <<"F","r","e","t","e">>}

\* boxes with centre and share of the image area:
\*   (0.8, 0.85) 4%      (0.1, 0.1) 0.16%     (0.5, 0.75) 1%
\*   (0.6, 0.9) 2%       (0.5, 0.7) 0.5%
CtaBoxes ==
  {[xmin |-> 700, ymin |-> 375, xmax |-> 900, ymax |-> 475],
   [xmin |-> 80, ymin |-> 40, xmax |-> 120, ymax |-> 60],
   [xmin |-> 450, ymin |-> 350, xmax |-> 550, ymax |-> 400],
   [xmin |-> 550, ymin |-> 400, xmax |-> 650, ymax |-> 500],
   [xmin |-> 475, ymin |-> 325, xmax |-> 525, ymax |-> 375]}

\* boxes a caller may also pass: reaching past the right and bottom border,
\* and with xmin > xmax
OddBoxes ==
  {[xmin |-> 950, ymin |-> 450, xmax |-> 1150, ymax |-> 550],
   [xmin |-> 900, ymin |-> 375, xmax |-> 700, ymax |-> 475]}

CtaConfidences == {40, 100}

Segments(boxes) ==
  {[text |-> t, confidence |-> c, bbox |-> b] :
     t \in CtaTexts, c \in CtaConfidences, b \in boxes}

MaxSegments == 2

SegmentLists(boxes) == UNION {[1..n -> Segments(boxes)] : n \in 0..MaxSegments}

\* average_contrast of the colour analysis, in hundredths
ContrastLevels == {450, 500}

InitCta ==
  /\ model_sample_model = 0
  /\ constructed = 0
  /\ global_writes = 0
  /\ hash_seed = 1
  /\ missing = {}
  /\ raises = {}
  /\ \E segs \in SegmentLists(CtaBoxes), c \in ContrastLevels :
       input_image = [size |-> CtaImageSize, text_segments |-> segs,
                      color_analysis |-> [average_contrast |-> c]]
  /\ entry = "cta"
  /\ pc = 1
  /\ status = "running"
  /\ loc = <<>>
  /\ results = <<>>
  /\ trace = <<>>
  /\ threads = <<>>
  /\ pure = <<>>

CallDetectCtaElements ==
  /\ pure = <<>>
  /\ pure' = <<[fn |-> "detect_cta_elements",
                value |-> detect_cta_elements(input_image.size,
                                              input_image.text_segments)]>>
  /\ UNCHANGED <<procVars, runVars, threads>>

\* app.py 322-324: the elements detected are passed on with the colour analysis
CallAnalyzeCtaEffectiveness ==
  /\ Len(pure) = 1
  /\ pure[1].fn = "detect_cta_elements"
  /\ pure' = Append(pure, [fn |-> "analyze_cta_effectiveness",
                           value |-> analyze_cta_effectiveness(
                                       pure[1].value, input_image.color_analysis)])
  /\ UNCHANGED <<procVars, runVars, threads>>

NextCta == CallDetectCtaElements \/ CallAnalyzeCtaEffectiveness

SpecCta == InitCta /\ [][NextCta]_vars

CtaDetected == entry = "cta" /\ Len(pure) >= 1

CtaAnalyzed == entry = "cta" /\ Len(pure) = 2

HasCtaKeyword(segment) ==
  \E k \in DOMAIN CTA_KEYWORDS : Contains(Lower(segment.text), CTA_KEYWORDS[k])

\* the centre ((xmin + xmax) / 2, (ymin + ymax) / 2) of the box, normalized by
\* the image size <<w, h>>, satisfies (x > 0.6 and y > 0.6) or
\* (0.4 < x < 0.6 and y > 0.7)
StrategicCentre(bbox, size) ==
  LET sx == bbox.xmin + bbox.xmax
      sy == bbox.ymin + bbox.ymax
  IN  \/ 5 * sx > 6 * size[1] /\ 5 * sy > 6 * size[2]
      \/ 5 * sx > 4 * size[1] /\ 5 * sx < 6 * size[1] /\ 5 * sy > 7 * size[2]

\* C22: detect_cta_elements returns one element for exactly the segments
\* whose lower-cased text contains a keyword, in input order, and
\* is_strategic_position is true exactly when the normalized centre satisfies
\* (x>0.6 and y>0.6) or (0.4<x<0.6 and y>0.7).
C22_CtaElementsAndPosition ==
  CtaDetected =>
    LET hits == SelectSeq(input_image.text_segments, HasCtaKeyword)
        found == pure[1].value
    IN  /\ Len(found) = Len(hits)
        /\ \A i \in DOMAIN hits :
             /\ found[i].text = hits[i].text
             /\ found[i].bbox = hits[i].bbox
             /\ found[i].confidence = hits[i].confidence
             /\ found[i].keywords # <<>>
             /\ found[i].is_strategic_position
                  = StrategicCentre(hits[i].bbox, input_image.size)

\* 'Compre Agora' centred at (0.8, 0.85) is strategic, the same text centred
\* at (0.1, 0.1) is not
C22_Witness ==
  /\ CtaDetected
  /\ Len(input_image.text_segments) = 2
  /\ Len(pure[1].value) = 2
  /\ pure[1].value[1].text = <<"C","o","m","p","r","e"," ","A","g","o","r","a">>
  /\ pure[1].value[1].position.normalized_x = 800
  /\ pure[1].value[1].position.normalized_y = 850
  /\ pure[1].value[1].is_strategic_position
  /\ pure[1].value[2].text = pure[1].value[1].text
  /\ pure[1].value[2].position.normalized_x = 100
  /\ pure[1].value[2].position.normalized_y = 100
  /\ ~pure[1].value[2].is_strategic_position

\* the points of one element, in thousandths
ExpectedScore(cta, average_contrast) ==
  (IF cta.is_strategic_position THEN 300 ELSE 0)
  + (IF cta.relative_size > 200 THEN 300 ELSE 0)
  + 2 * cta.confidence
  + (IF average_contrast > 450 THEN 200 ELSE 0)

ExpectedTotal(ctas, average_contrast) ==
  SumSeq([i \in DOMAIN ctas |-> ExpectedScore(ctas[i], average_contrast)])

\* C23: each element scores 0.3 (strategic position) + 0.3 (relative_size >
\* 2.0) + 0.2 x confidence + 0.2 (average contrast > 4.5); effectiveness_score
\* is the mean over the elements and lies in [0,1]; with zero elements the
\* score is 0.0 and there is exactly one recommendation.
C23_EffectivenessIsMeanScore ==
  CtaAnalyzed =>
    LET ctas == pure[1].value
        r == pure[2].value
    IN  IF ctas = <<>>
        THEN r.effectiveness_score = 0 /\ Len(r.recommendations) = 1
        ELSE /\ r.effectiveness_score
                  = RoundDiv(ExpectedTotal(ctas, input_image.color_analysis.average_contrast),
                             10 * Len(ctas))
             /\ r.effectiveness_score \in 0..100

\* one element of exactly 2% of the image, outside the strategic regions, read
\* with confidence 1.0 on a contrast above 4.5: 0.2 + 0.2
C23_Witness ==
  /\ CtaAnalyzed
  /\ Len(pure[1].value) = 1
  /\ pure[1].value[1].relative_size = 200
  /\ ~pure[1].value[1].is_strategic_position
  /\ pure[1].value[1].confidence = 100
  /\ input_image.color_analysis.average_contrast = 500
  /\ pure[2].value.effectiveness_score = 40

PositionSentence == "poderia estar em posição mais estratégica (inferior direito)"

SizeSentence == "é muito pequeno para ser facilmente notado"

\* C24: there is a position recommendation naming every element that is not
\* in a strategic position, a size recommendation naming every element whose
\* relative_size is not above 2.0, and the low-score recommendation whenever
\* the overall score is below 0.5; the 'well positioned' message is returned
\* only when no factor of any element is weak.
C24_WeakFactorsGetRecommendations ==
  (CtaAnalyzed /\ pure[1].value # <<>>) =>
    LET ctas == pure[1].value
        recs == Range(pure[2].value.recommendations)
    IN  /\ \A i \in DOMAIN ctas :
             ~ctas[i].is_strategic_position =>
               [cta |-> ctas[i].text, text |-> PositionSentence] \in recs
        /\ \A i \in DOMAIN ctas :
             ctas[i].relative_size <= 200 =>
               [cta |-> ctas[i].text, text |-> SizeSentence] \in recs
        /\ 2 * ExpectedTotal(ctas, input_image.color_analysis.average_contrast)
             < 1000 * Len(ctas) =>
               Plain("Melhore visibilidade do CTA aumentando contraste e tamanho") \in recs
        /\ Plain("CTAs bem posicionados e visíveis") \in recs =>
             \A i \in DOMAIN ctas :
               ctas[i].is_strategic_position /\ ctas[i].relative_size > 200

\* the same lists of segments, with the boxes an OCR engine may also report
InitCtaBoxes ==
  /\ model_sample_model = 0
  /\ constructed = 0
  /\ global_writes = 0
  /\ hash_seed = 1
  /\ missing = {}
  /\ raises = {}
  /\ \E segs \in SegmentLists(CtaBoxes \cup OddBoxes), c \in ContrastLevels :
       input_image = [size |-> CtaImageSize, text_segments |-> segs,
                      color_analysis |-> [average_contrast |-> c]]
  /\ entry = "cta"
  /\ pc = 1
  /\ status = "running"
  /\ loc = <<>>
  /\ results = <<>>
  /\ trace = <<>>
  /\ threads = <<>>
  /\ pure = <<>>

SpecCtaBoxes == InitCtaBoxes /\ [][NextCta]_vars

\* C25: whatever boxes the segments carry, every returned element has
\* normalized_x and normalized_y in [0,1] (thousandths: 0..1000) and
\* relative_size in [0,100] (hundredths of a percent: 0..10000).
C25_CtaGeometryInRange ==
  CtaDetected =>
    \A i \in DOMAIN pure[1].value :
      /\ pure[1].value[i].position.normalized_x \in 0..1000
      /\ pure[1].value[i].position.normalized_y \in 0..1000
      /\ pure[1].value[i].relative_size \in 0..10000


\* ---------------------------------------------------------------------------
\* analyze_narrative on its own: detected objects, scene emotion, text, palette
\* ---------------------------------------------------------------------------

ObjectNames == <<Chars.person, Chars.clock, Chars.car, Chars.dog>>

MaxObjects == 6

\* the lists of detections, up to the order of the detections
ObjectLists ==
  UNION {{[i \in 1..n |-> [name |-> ObjectNames[f[i]]]] :
            f \in {g \in [1..n -> DOMAIN ObjectNames] :
                     \A i \in 1..n, j \in 1..n : i <= j => g[i] <= g[j]}} :
         n \in 0..MaxObjects}

SceneEmotions == {"happy", "sad", "neutral"}

NarrativeTexts == {<<>>, <<"C","o","r","r","a">>, <<"O","f","e","r","t","a">>}

NarrativePalettes == {"warm-energetic", "dark", "neutral", "calm"}

InitNarrative ==
  /\ model_sample_model = 0
  /\ constructed = 0
  /\ global_writes = 0
  /\ hash_seed = 1
  /\ missing = {}
  /\ raises = {}
  /\ \E o \in ObjectLists, e \in SceneEmotions, x \in NarrativeTexts,
        c \in NarrativePalettes :
       input_image = [objects |-> o,
                      emotions |-> [scene_emotion |-> e],
                      text |-> [full_text |-> x],
                      colors |-> [emotion_palette |-> c]]
  /\ entry = "analyze_narrative"
  /\ pc = 1
  /\ status = "running"
  /\ loc = <<>>
  /\ results = <<>>
  /\ trace = <<>>
  /\ threads = <<>>
  /\ pure = <<>>

CallAnalyzeNarrative ==
  /\ entry = "analyze_narrative"
  /\ pure = <<>>
  /\ pure' = <<[fn |-> "analyze_narrative",
                value |-> analyze_narrative(input_image.objects, input_image.emotions,
                                            input_image.text, input_image.colors)]>>
  /\ UNCHANGED <<procVars, runVars, threads>>

NextNarrative == CallAnalyzeNarrative

SpecNarrative == InitNarrative /\ [][NextNarrative]_vars

NarrativeCalled == entry = "analyze_narrative" /\ pure # <<>>

DetectedNames == {input_image.objects[i].name : i \in DOMAIN input_image.objects}

PersonDetected == Chars.person \in DetectedNames

TimeObjectDetected ==
  DetectedNames \cap {Chars.clock, Chars.watch, Chars.timer, Chars.hourglass} # {}

UrgencyInText ==
  \E k \in DOMAIN urgency_keywords :
    Contains(Lower(input_image.text.full_text), urgency_keywords[k])

SceneEmotion == input_image.emotions.scene_emotion

PaletteTag == input_image.colors.emotion_palette

\* C26: the story is that of the first matching rule: a person among the
\* objects and emotion 'happy' gives pessoa_feliz; otherwise more than 3
\* distinct object names gives cena_complexa; otherwise an urgency keyword in
\* the text or a time-related object gives urgencia_acao; otherwise
\* narrativa_simples.
C26_StoryByDistinctObjects ==
  NarrativeCalled =>
    pure[1].value.implicit_story =
      IF PersonDetected /\ SceneEmotion = "happy" THEN "pessoa_feliz"
      ELSE IF Cardinality(DetectedNames) > 3 THEN "cena_complexa"
      ELSE IF UrgencyInText \/ TimeObjectDetected THEN "urgencia_acao"
      ELSE "narrativa_simples"

SurpriseLevel(score) ==
  IF score > 60 THEN "alto" ELSE IF score > 30 THEN "moderado" ELSE "baixo"

C28_UrgencyFlagAgreesWithSurprise ==
  NarrativeCalled =>
    LET r == pure[1].value
    IN  (r.scarcity_trigger_detected /\ ~r.incongruence_detected) =>
          (r.surprise_score = 50 /\ r.surprise_level = "moderado")

\* C29: 'coerencia_emocional_neutra' is among the narrative elements only
\* when the emotion is 'sad' and the palette is dark or neutral; with any other
\* emotion and a 'neutral' palette there is no narrative element and
\* narrative_coherence is 'moderada'.
C29_NeutralCoherenceOnlyWhenSad ==
  NarrativeCalled =>
    LET r == pure[1].value
    IN  /\ "coerencia_emocional_neutra" \in Range(r.narrative_elements) =>
             (SceneEmotion = "sad" /\ PaletteTag \in {"dark", "neutral"})
        /\ (SceneEmotion # "sad" /\ PaletteTag = "neutral") =>
             (r.narrative_elements = <<>> /\ r.narrative_coherence = "moderada")


\* ---------------------------------------------------------------------------
\* analyze_texture on its own: the codes of the pixels, the gradient variance
\* ---------------------------------------------------------------------------

TexturePixels == 4

SampleCodes == {0, 12, 24, lbp_n_points + 1}

\* every code once
AllCodes == [i \in 1..(lbp_n_points + 2) |-> i - 1]

\* half of the pixels of the lowest code, half of the highest
ExtremeCodes == [i \in 1..(lbp_n_points + 2) |-> IF i % 2 = 0 THEN 0 ELSE lbp_n_points + 1]

LbpArrays ==
  UNION {[1..n -> SampleCodes] : n \in 1..TexturePixels} \cup {AllCodes, ExtremeCodes}

GradientVariances == {0, 26000, 60000}

InitTexture ==
  /\ model_sample_model = 0
  /\ constructed = 0
  /\ global_writes = 0
  /\ hash_seed = 1
  /\ missing \in {{}, {"skimage"}}
  /\ raises \in SUBSET {"texture"}
  /\ \E l \in LbpArrays, g \in GradientVariances :
       input_image = [texture |-> [lbp |-> l, gradient_variance |-> g]]
  /\ entry = "analyze_texture"
  /\ pc = 1
  /\ status = "running"
  /\ loc = <<>>
  /\ results = <<>>
  /\ trace = <<>>
  /\ threads = <<>>
  /\ pure = <<>>

CallAnalyzeTexture ==
  /\ entry = "analyze_texture"
  /\ pure = <<>>
  /\ pure' = <<[fn |-> "analyze_texture",
                value |-> analyze_texture(input_image, "skimage" \notin missing,
                                          "texture" \in raises)]>>
  /\ UNCHANGED <<procVars, runVars, threads>>

NextTexture == CallAnalyzeTexture

SpecTexture == InitTexture /\ [][NextTexture]_vars

LbpAnalyzed ==
  /\ entry = "analyze_texture"
  /\ pure # <<>>
  /\ "skimage" \notin missing
  /\ "texture" \notin raises

\* C30: in the local-binary-pattern branch texture_variance is at most 156.25
\* and texture_entropy at most ln(26) = 3.258, so tactile_sensation is 'lisa'
\* or 'muito_lisa' and texture_type is never 'complexa'.
C30_LbpTiersOutOfReach ==
  LbpAnalyzed =>
    LET r == pure[1].value
    IN  /\ r.method = "lbp"
        /\ r.texture_variance <= 15625
        /\ r.texture_entropy[1] <= 3258
        /\ r.tactile_sensation \in {"lisa", "muito_lisa"}
        /\ r.texture_type # "complexa"

\* the pixels split between the codes 0 and 25: the variance is 156.25, the
\* largest there is, and the sensation is 'lisa'
C30_Witness ==
  /\ LbpAnalyzed
  /\ input_image.texture.lbp = ExtremeCodes
  /\ pure[1].value.texture_variance = 15625
  /\ pure[1].value.tactile_sensation = "lisa"

====
